---- MODULE Spec2Model ----
(***************************************************************************)
(* Model of the instrumentation-wrapping engine of @brokerize/telemetry:   *)
(* Traces.getSpan, Traces.withTracing / @Traces.trace                       *)
(* (src/src/tracing/tracingDecorator.ts), the tracing mode flag             *)
(* (tracing-config.ts) and the metric decorator wrappers                    *)
(* (metricsDecorator.ts, src/unnamed/part_006).                             *)
(*                                                                         *)
(* JavaScript is single-threaded and run-to-completion: `stack` holds the   *)
(* wrapper calls that are executing synchronously (innermost last); only    *)
(* the innermost one can take a step, and promise reactions and user code   *)
(* at top level run only when the stack is empty.                           *)
(***************************************************************************)
EXTENDS Integers, Sequences, FiniteSets, TLC

VARIABLES
    mode,       \* tracing-config.ts `mode`
    wrapped,    \* the wrapped callable (the constants of its closure), or NoWrap
    spans,      \* every span started so far, as the calls made on it; a span's id is its index
    calls,      \* the invocations of wrapped callables
    stack,      \* calls executing synchronously, innermost last
    lastGet,    \* the last direct call of Traces.getSpan and what it returned
    registry,   \* the static maps of class Metrics, prom-client's default register, the last operation
    tracingConfig, \* tracing-config.ts enableSpanLimits, warnOncePromise, warnOnceLimits, what diag received
    decorated,  \* what a decorator factory was applied to and what it returned
    instrumentation \* instrumentation.ts: sdk, contextManager, createdTraceExporter,
                \* effectiveSpanProcessors, the SDKs built and the shutdowns under way

vars == <<mode, wrapped, spans, calls, stack, lastGet, registry, tracingConfig, decorated, instrumentation>>

\* ---------------------------------------------------------------- bounds
MaxCalls == 2
MaxUserSpans == 1
\* spans in a run of direct Traces.getSpan calls
MaxGetSpans == 3
\* operations on the Metrics registry in a run
MaxRegistryOps == 3
\* calls of maybeWarnLegacy in a run
MaxObservations == 4
\* calls of initInstrumentation and of shutDownInstrumentation in a run
MaxInits == 2
MaxShutdowns == 2

\* ---------------------------------------------------------------- values
Calls == 1..MaxCalls
NoSpan == 0
User == 0
NoWrap == [made |-> FALSE]

TracingModes == {"natural-sync-async", "legacy-always-promise"}
StartModes == {"reuse", "createChild", "newTrace", "newTraceWithLink"}

\* What an original callable can return or throw.
Args == {"a"}
\* "n7" is the number 7
Numbers == {"n7"}
Values == Numbers
Errors == {"E1"}
\* E1 is `new RangeError('neg')`; FaultErr is what a backend operation
\* throws when it fails, `new Error('backend')`
Undefined == "undefined"
FaultErr == "EB"
\* what a traceOnlyIf predicate throws when it fails, `new Error('gate')`
GateErr == "EG"
\* `error?.message`
Message(e) == IF e = "E1" THEN "neg" ELSE IF e = FaultErr THEN "backend" ELSE Undefined
\* `err?.name || 'unknown_error'`
ErrorLabel(e) == IF e = "E1" THEN "RangeError" ELSE IF e = FaultErr THEN "Error" ELSE "unknown_error"
\* `typeof v === 'number'`
IsNumber(v) == v \in Numbers
Nothing == "nothing"

StatusUnset == "UNSET"
StatusOk == "OK"
StatusError == "ERROR"

\* ---------------------------------------------------------------- results
ResNone == [form |-> "none", state |-> "none", payload |-> Nothing]
ResValue(v) == [form |-> "value", state |-> "returned", payload |-> v]
ResThrow(e) == [form |-> "throw", state |-> "thrown", payload |-> e]
ResPromise(st, p) == [form |-> "promise", state |-> st, payload |-> p]

\* `return coerceToPromise ? Promise.resolve(result) : result`
ReturnResult(coerce, v) ==
    IF coerce THEN ResPromise("fulfilled", v) ELSE ResValue(v)

\* `if (coerceToPromise) return Promise.reject(error); throw error;`
ThrowResult(coerce, e) ==
    IF coerce THEN ResPromise("rejected", e) ELSE ResThrow(e)

\* gating false: `const res = originalFn.apply(this, args);
\*                return coerceToPromise ? Promise.resolve(res) : res;`
\* out is what originalFn.apply did: a throw leaves the wrapper at once.
UntracedResult(coerce, out) ==
    CASE out.form = "throw" -> ResThrow(out.payload)
      [] out.form = "value" -> ReturnResult(coerce, out.payload)
      [] OTHER -> ResPromise("pending", Nothing)

\* the metric wrappers: `return res`
RawResult(out) ==
    IF out.form = "value" THEN ResValue(out.payload) ELSE ResPromise("pending", Nothing)

\* `const globalLegacy = getTracingMode() === 'legacy-always-promise';
\*  const coerceToPromise = globalLegacy;`  evaluated when the wrapper is built
CoerceToPromise(m) == m = "legacy-always-promise"

\* ---------------------------------------------------------------- attributes
\* Attribute maps: a key an object does not hold maps to Absent. "k" is a
\* key that static and dynamic attributes can both set.
SamplingKey == "otel.collector.sampling.keep"
FunctionNameKey == "function.name"
Keys == {"k", FunctionNameKey, SamplingKey}
Absent == "absent"
NoAttrs == [k \in Keys |-> Absent]
\* `{ ...a, ...b }`
Merge(a, b) == [k \in Keys |-> IF b[k] # Absent THEN b[k] ELSE a[k]]
\* `!v`: undefined, false, 0 and '' are falsy ("zero" is the number 0)
Falsy(v) == v \in {Absent, "false", "zero", ""}

\* SpanOptions as a caller passes them: `undefined`, without `attributes`,
\* or with attributes
NoOptions == [given |-> FALSE, hasAttributes |-> FALSE, attributes |-> NoAttrs]
OptionsWith(attrs) == [given |-> TRUE, hasAttributes |-> TRUE, attributes |-> attrs]

\* Traces._setSamplingRule(spanOption)
SetSamplingRule(o) ==
    LET o1 == IF ~o.given THEN OptionsWith(NoAttrs) ELSE o
        o2 == IF ~o1.hasAttributes THEN OptionsWith(NoAttrs) ELSE o1
    IN  IF Falsy(o2.attributes[SamplingKey])
        THEN [o2 EXCEPT !.attributes[SamplingKey] = "false"]
        ELSE o2

\* ---------------------------------------------------------------- spans
NewSpan(by, opts, parent, trace, links) ==
    [by |-> by, parent |-> parent, trace |-> trace, links |-> links,
     attrs |-> opts.attributes,
     status |-> StatusUnset, msg |-> Undefined, statusSets |-> 0,
     exc |-> <<>>, ended |-> 0, endedBy |-> <<>>]

\* tracer.startSpan(name, opts) in the context whose active span is `active`:
\* the backend parents the span on the active span unless opts.root is set,
\* and a span without parent starts a trace of its own.
StartSpan(sp, opts, active, root, links, by) ==
    LET parent == IF root \/ active = NoSpan THEN NoSpan ELSE active
        trace == IF parent = NoSpan THEN Len(sp) + 1 ELSE sp[parent].trace
    IN  Append(sp, NewSpan(by, opts, parent, trace, links))

SpanSetStatus(sp, s, code, msg) ==
    [sp EXCEPT ![s].status = code, ![s].msg = msg, ![s].statusSets = @ + 1]

SpanRecordException(sp, s, e) ==
    [sp EXCEPT ![s].exc = Append(@, e)]

SpanEnd(sp, s, by) ==
    [sp EXCEPT ![s].ended = @ + 1, ![s].endedBy = Append(@, by)]

Created(sp) == [spans |-> sp, span |-> Len(sp), createdSpan |-> TRUE]

\* getSpan whose 'newTraceWithLink' hands back the active span instead of
\* starting a linked root span
GetSpanLinkReuses(sp, options, smode, active, by) ==
    IF smode \in {"reuse", "newTraceWithLink"} /\ active # NoSpan
    THEN [spans |-> sp, span |-> active, createdSpan |-> FALSE]
    ELSE IF smode \in {"newTrace", "newTraceWithLink"}
    THEN Created(StartSpan(sp, SetSamplingRule(options), active, TRUE, {}, by))
    ELSE Created(StartSpan(sp, SetSamplingRule(options), active, FALSE, {}, by))

\* getSpan whose 'newTrace' forgets `root: true`
GetSpanNewTraceParented(sp, options, smode, active, by) ==
    LET opts == SetSamplingRule(options)
    IN  IF smode = "reuse" /\ active # NoSpan
        THEN [spans |-> sp, span |-> active, createdSpan |-> FALSE]
        ELSE IF smode = "newTraceWithLink"
        THEN IF active # NoSpan
             THEN Created(StartSpan(sp, opts, active, TRUE, {active}, by))
             ELSE Created(StartSpan(sp, opts, active, TRUE, {}, by))
        ELSE Created(StartSpan(sp, opts, active, FALSE, {}, by))

\* getSpan whose 'newTraceWithLink' forgets the link
GetSpanNoLink(sp, options, smode, active, by) ==
    LET opts == SetSamplingRule(options)
    IN  IF smode = "reuse" /\ active # NoSpan
        THEN [spans |-> sp, span |-> active, createdSpan |-> FALSE]
        ELSE IF smode \in {"newTrace", "newTraceWithLink"}
        THEN Created(StartSpan(sp, opts, active, TRUE, {}, by))
        ELSE Created(StartSpan(sp, opts, active, FALSE, {}, by))

\* Traces.getSpan(spanName, options, mode, moduleName), called where the
\* active span is `active`; `by` is who calls (a call id, or User).
GetSpan(sp, options, smode, active, by) ==
    LET opts == SetSamplingRule(options)
    IN  IF smode = "reuse" /\ active # NoSpan
        THEN [spans |-> sp, span |-> active, createdSpan |-> FALSE]
        ELSE IF smode = "newTrace"
        THEN Created(StartSpan(sp, opts, active, TRUE, {}, by))
        ELSE IF smode = "newTraceWithLink"
        THEN IF active # NoSpan
             THEN Created(StartSpan(sp, opts, active, TRUE, {active}, by))
             ELSE Created(StartSpan(sp, opts, active, TRUE, {}, by))
        ELSE Created(StartSpan(sp, opts, active, FALSE, {}, by))

\* Traces.getCurrentSpanOrCreateNew(spanName, options, createNewSpan, moduleName)
GetCurrentSpanOrCreateNew(sp, options, createNewSpan, active, by) ==
    LET optionsWithSamplingRule == SetSamplingRule(options)
    IN  IF active = NoSpan \/ createNewSpan
        THEN Created(StartSpan(sp, optionsWithSamplingRule, active, FALSE, {}, by))
        ELSE [spans |-> sp, span |-> active, createdSpan |-> FALSE]

\* ---------------------------------------------------------------- calls
IdleCall ==
    [pc |-> "idle", active |-> NoSpan, args |-> Nothing, gateIn |-> TRUE,
     gateThrows |-> FALSE,
     ctx |-> NoSpan, span |-> NoSpan, createdSpan |-> FALSE, spanEnded |-> FALSE,
     labelErr |-> Nothing, timer |-> FALSE, writes |-> <<>>,
     spanOptions |-> NoOptions,
     out |-> [form |-> "none", payload |-> Nothing], origArgs |-> <<>>,
     err |-> Nothing, chain |-> [ok |-> TRUE, payload |-> Nothing],
     settledWith |-> [ok |-> TRUE, payload |-> Nothing],
     reactions |-> <<>>, res |-> ResNone, log |-> <<>>]

Top == stack[Len(stack)]
Pop == SubSeq(stack, 1, Len(stack) - 1)
Running(c) == IF stack = <<>> THEN FALSE ELSE Top = c

UserSpans == {s \in 1..Len(spans) : spans[s].by = User}
Awaiting == {d \in Calls : calls[d].pc \in {"await", "awaitU", "chain"}}
\* the span that is active where user code invokes something: inside an
\* executing original it is that call's context; at top level user code
\* chooses it (context.with), or it is the context of an original's async body
ActiveChoices ==
    IF stack # <<>> THEN {calls[Top].ctx}
    ELSE {NoSpan} \cup UserSpans \cup {calls[d].ctx : d \in Awaiting}

\* `const { startMode = options.createNewSpan ? 'createChild' : options.startMode ?? 'reuse' } = options`:
\* the default of a destructuring is evaluated only if options.startMode is undefined
ResolveStartMode(createNewSpan, startMode) ==
    IF startMode # Undefined THEN startMode
    ELSE IF createNewSpan THEN "createChild" ELSE "reuse"

\* the constants of the closure that Traces.withTracing and
\* Traces._wrapCallableWithTracing build
\* options.attributes, options.dynamicAttributes and originalFn.name are
\* those of `o`: [attributes, dynamicAttributes, fnName]
ClosureWith(createNewSpan, startMode, o) ==
    [made |-> TRUE, kind |-> "trace", coerce |-> CoerceToPromise(mode),
     startMode |-> ResolveStartMode(createNewSpan, startMode), timed |-> FALSE,
     attributes |-> o.attributes, dynamicAttributes |-> o.dynamicAttributes,
     fnName |-> o.fnName]

\* `attributes = {}`, no dynamicAttributes, an anonymous function
\* (`withTracing(() => ...)`)
PlainTraceOptions == [attributes |-> NoAttrs, dynamicAttributes |-> "none", fnName |-> ""]
Closure(createNewSpan, startMode) ==
    ClosureWith(createNewSpan, startMode, PlainTraceOptions)

\* the constants of the closure that Metrics._wrapWithCounter, _wrapWithGauge,
\* _wrapWithHistogram and _wrapWithSummary build
MetricKinds == {"counter", "gauge", "histogram", "summary"}
MetricClosure(kind, timed) ==
    [made |-> TRUE, kind |-> kind, coerce |-> FALSE, startMode |-> "reuse",
     timed |-> timed, attributes |-> NoAttrs, dynamicAttributes |-> "none",
     fnName |-> ""]

\* The statements of each wrapper after the original callable has returned,
\* in the order of the code: the rest of the try block for an immediate
\* result, the catch block, and the callbacks of the promise chain.
TraceTryBlock == <<"setStatusOk", "endSpan", "return">>
TraceCatchBlock == <<"setStatusError", "recordException", "endSpan", "rethrow">>
TraceThenCb == <<"setStatusOk">>
TraceCatchCb == <<"setStatusError", "recordException", "rethrow">>
\* the promise chain without the `.finally(() => endSpan())`
TraceFinallyCbNoEnd == <<>>
TraceFinallyCb == <<"endSpan">>
TraceReactions == <<"then", "catch", "finally">>

CounterTryBlock == <<"inc", "return">>
CounterCatchBlock == <<"labelError", "inc", "rethrow">>
CounterThenCb == <<>>
CounterCatchCb == <<"labelError", "rethrow">>
CounterFinallyCb == <<"inc">>
CounterReactions == <<"then", "catch", "finally">>

\* gauge and summary: `endTimer(); if (!timed && typeof res === 'number') gauge.set(labels, res);`
GaugeTryBlock == <<"endTimer", "setValue", "return">>
GaugeCatchBlock == <<"endTimer", "rethrow">>
GaugeThenCb == <<"endTimer", "setValue">>
GaugeCatchCb == <<"endTimer", "rethrow">>
GaugeReactions == <<"then", "catch">>

HistogramTryBlock == <<"endTimer", "return">>
HistogramCatchBlock == <<"labelError", "endTimer", "rethrow">>
HistogramThenCb == <<"endTimer">>
\* the timer stopped before the error label is assigned
HistogramCatchCbStopFirst == <<"endTimer", "labelError", "rethrow">>
HistogramCatchCb == <<"labelError", "endTimer", "rethrow">>
HistogramReactions == <<"then", "catch">>

TryBlock ==
    CASE wrapped.kind = "trace" -> TraceTryBlock
      [] wrapped.kind = "counter" -> CounterTryBlock
      [] wrapped.kind = "histogram" -> HistogramTryBlock
      [] OTHER -> GaugeTryBlock
CatchBlock ==
    CASE wrapped.kind = "trace" -> TraceCatchBlock
      [] wrapped.kind = "counter" -> CounterCatchBlock
      [] wrapped.kind = "histogram" -> HistogramCatchBlock
      [] OTHER -> GaugeCatchBlock
Reactions ==
    CASE wrapped.kind = "trace" -> TraceReactions
      [] wrapped.kind = "counter" -> CounterReactions
      [] wrapped.kind = "histogram" -> HistogramReactions
      [] OTHER -> GaugeReactions
Callback(k) ==
    CASE wrapped.kind = "trace" ->
            (CASE k = "then" -> TraceThenCb [] k = "catch" -> TraceCatchCb
               [] OTHER -> TraceFinallyCb)
      [] wrapped.kind = "counter" ->
            (CASE k = "then" -> CounterThenCb [] k = "catch" -> CounterCatchCb
               [] OTHER -> CounterFinallyCb)
      [] wrapped.kind = "histogram" ->
            (IF k = "then" THEN HistogramThenCb ELSE HistogramCatchCb)
      [] OTHER -> (IF k = "then" THEN GaugeThenCb ELSE GaugeCatchCb)

\* tracing: `const isThenable = result && typeof result.then === 'function'`
IsThenable(form) == form \in {"promise", "thenable"}
\* metrics: `res instanceof Promise`
IsPromise(form) == form = "promise"

\* does the wrapper treat what the original returned as deferred
IsDeferred(form) ==
    IF wrapped.kind = "trace" THEN IsThenable(form) ELSE IsPromise(form)

\* `dynamicAttributes ? dynamicAttributes(args) : {}`; the function "byArgs"
\* is `(args) => ({ k: args[0], 'function.name': args[0] })`
DynamicAttributes(fn, args) ==
    IF fn = "none" THEN NoAttrs
    ELSE [NoAttrs EXCEPT !["k"] = args, ![FunctionNameKey] = args]

\* `...(originalFn.name ? { 'function.name': originalFn.name } : {})`
FunctionNameAttr(name) ==
    IF name # "" THEN [NoAttrs EXCEPT ![FunctionNameKey] = name] ELSE NoAttrs

\* the merge with the static attributes spread last
SpanOptionsStaticWins(w, args) ==
    OptionsWith(Merge(Merge(DynamicAttributes(w.dynamicAttributes, args), w.attributes),
                      FunctionNameAttr(w.fnName)))

\* `const spanOptions = { attributes: { ...attributes, ...dyn, ...(function.name) } }`
SpanOptions(w, args) ==
    OptionsWith(Merge(Merge(w.attributes, DynamicAttributes(w.dynamicAttributes, args)),
                      FunctionNameAttr(w.fnName)))

\* endSpan without the ownership test: `if (!spanEnded) { span.end(); ... }`
EndSpanGuardNotOwned(r) == ~r.spanEnded
\* endSpan: `if (!spanEnded && createdSpan) { span.end(); spanEnded = true; }`
EndSpanGuard(r) == ~r.spanEnded /\ r.createdSpan

\* a wrapper that ignores the gate
ShouldTraceAlways(r) == TRUE
\* `typeof traceOnlyIf === 'function' ? traceOnlyIf(args, this, currentSpan) : !!traceOnlyIf`
ShouldTrace(r) == r.gateIn

Logged(r, ev) == [r EXCEPT !.log = Append(@, ev)]
\* what the caller sees when the wrapper returns: a settled outcome
\* ("return") or a promise that is still pending ("pending")
ReturnEvent(res) == IF res.state = "pending" THEN "pending" ELSE "return"

\* ---------------------------------------------------------------- statements
\* An execution state st is [sp: the spans, r: the call, thrown: the exception
\* in flight, or Nothing]. fs is the set of backend operations that throw
\* when this piece of code calls them (empty when the backend works).
Throw(st, e) == [st EXCEPT !.thrown = e]
Fails(st, ev, e) == [st EXCEPT !.thrown = e, !.r = Logged(@, ev)]

\* the status is set only on a span the call created
DoSetStatusOkIfOwned(st, fs) ==
    IF ~st.r.createdSpan THEN st
    ELSE IF "setStatus" \in fs THEN Fails(st, "status!", FaultErr)
    ELSE [st EXCEPT !.sp = SpanSetStatus(@, st.r.span, StatusOk, Undefined),
                    !.r = Logged(@, "status")]
\* `span.setStatus({ code: SpanStatusCode.OK })`
DoSetStatusOk(st, fs) ==
    IF "setStatus" \in fs THEN Fails(st, "status!", FaultErr)
    ELSE [st EXCEPT !.sp = SpanSetStatus(@, st.r.span, StatusOk, Undefined),
                    !.r = Logged(@, "status")]

\* `span.setStatus({ code: SpanStatusCode.ERROR, message: error?.message })`
DoSetStatusError(st, fs) ==
    IF "setStatus" \in fs THEN Fails(st, "status!", FaultErr)
    ELSE [st EXCEPT !.sp = SpanSetStatus(@, st.r.span, StatusError, Message(st.r.err)),
                    !.r = Logged(@, "status")]

\* `span.recordException(error)`
DoRecordException(st, fs) ==
    IF "recordException" \in fs THEN Fails(st, "exception!", FaultErr)
    ELSE [st EXCEPT !.sp = SpanRecordException(@, st.r.span, st.r.err),
                    !.r = Logged(@, "exception")]

\* `endSpan()`
DoEndSpan(st, c, fs) ==
    IF ~EndSpanGuard(st.r) THEN st
    ELSE IF "end" \in fs THEN Fails(st, "end!", FaultErr)
    ELSE [st EXCEPT !.sp = SpanEnd(@, st.r.span, c),
                    !.r = [Logged(@, "end") EXCEPT !.spanEnded = TRUE]]

\* `labels.error = err?.name || 'unknown_error'`
DoLabelError(st) ==
    [st EXCEPT !.r = [Logged(@, "label") EXCEPT !.labelErr = ErrorLabel(st.r.err)]]

\* one labels object for all invocations of the wrapper
WriteSharedLabels(r, ev, op, v) ==
    LET assigned == {calls[d].labelErr : d \in DOMAIN calls} \ {"none"}
        shared == IF r.labelErr # "none" \/ assigned = {} THEN r.labelErr
                  ELSE CHOOSE l \in assigned : TRUE
    IN  [Logged(r, ev) EXCEPT !.writes = Append(@, [op |-> op, error |-> shared, value |-> v])]
Write(r, ev, op, v) ==
    [Logged(r, ev) EXCEPT !.writes = Append(@, [op |-> op, error |-> r.labelErr, value |-> v])]

\* `counter.inc(labels)`
DoInc(st, fs) ==
    IF "inc" \in fs THEN Fails(st, "inc!", FaultErr)
    ELSE [st EXCEPT !.r = Write(@, "inc", "inc", 1)]

\* `endTimer()`: `let endTimer = () => {}; if (timed) endTimer = gauge.startTimer(labels)`,
\* histogram: `const endTimer = histogram.startTimer(labels)`
DoEndTimer(st, fs) ==
    IF ~st.r.timer THEN st
    ELSE IF "endTimer" \in fs THEN Fails(st, "stop!", FaultErr)
    ELSE [st EXCEPT !.r = Write(@, "stop", "observeSeconds", Nothing)]

\* `if (!timed && typeof res === 'number') gauge.set(labels, res)` (summary.observe)
DoSetValue(st, v, fs) ==
    IF wrapped.timed \/ ~IsNumber(v) THEN st
    ELSE IF "set" \in fs THEN Fails(st, "set!", FaultErr)
    ELSE [st EXCEPT !.r = Write(@, "set", "set", v)]

\* tracing: `return coerceToPromise ? Promise.resolve(result) : result`
\* metrics: `return res`
DoReturn(st) ==
    LET res == IF wrapped.kind = "trace"
               THEN ReturnResult(wrapped.coerce, st.r.out.payload)
               ELSE RawResult(st.r.out)
    IN  [st EXCEPT !.r = [Logged(@, ReturnEvent(res)) EXCEPT !.res = res]]

\* in a catch block of tracing: `if (coerceToPromise) return Promise.reject(error); throw error;`
\* in a catch block of metrics, and in a .catch callback: `throw err`
DoRethrow(st, cb) ==
    IF cb THEN Throw(st, st.r.err)
    ELSE [st EXCEPT !.r = [Logged(@, "return") EXCEPT
                             !.res = ThrowResult(wrapped.coerce, st.r.err)]]

Do(st, op, c, v, fs, cb) ==
    CASE op = "setStatusOk" -> DoSetStatusOk(st, fs)
      [] op = "setStatusError" -> DoSetStatusError(st, fs)
      [] op = "recordException" -> DoRecordException(st, fs)
      [] op = "endSpan" -> DoEndSpan(st, c, fs)
      [] op = "labelError" -> DoLabelError(st)
      [] op = "inc" -> DoInc(st, fs)
      [] op = "endTimer" -> DoEndTimer(st, fs)
      [] op = "setValue" -> DoSetValue(st, v, fs)
      [] op = "return" -> DoReturn(st)
      [] op = "rethrow" -> DoRethrow(st, cb)

\* the statements ops in sequence, until one throws; v is the value at hand
\* (`res` in the try block, `v` in a .then callback)
RECURSIVE RunOps(_, _, _, _, _, _)
RunOps(st, ops, c, v, fs, cb) ==
    IF ops = <<>> \/ st.thrown # Nothing THEN st
    ELSE RunOps(Do(st, Head(ops), c, v, fs, cb), Tail(ops), c, v, fs, cb)

\* `catch (error) { ... }`: an exception that the catch block itself throws
\* leaves the wrapper
RunCatch(st, e, c, fs) ==
    LET u == RunOps([st EXCEPT !.thrown = Nothing, !.r.err = e], CatchBlock, c,
                    Nothing, fs, FALSE)
    IN  IF u.thrown = Nothing THEN u
        ELSE [u EXCEPT !.r = [Logged(@, "return") EXCEPT !.res = ResThrow(u.thrown)]]

\* `try { ... } catch (error) { ... }` once the original callable has
\* returned something the wrapper takes for immediate, or has thrown (out)
RunSync(st, out, c, fs) ==
    IF out.form = "throw" THEN RunCatch(st, out.payload, c, fs)
    ELSE LET t == RunOps(st, TryBlock, c, out.payload, fs, FALSE)
         IN  IF t.thrown = Nothing THEN t ELSE RunCatch(t, t.thrown, c, fs)

\* ---------------------------------------------------------------- the Metrics registry
\* metricsDecorator.ts, class Metrics: one registration map and one instance
\* map per metric kind, and prom-client's default register, which holds the
\* names of the instances constructed so far.
MetricNames == {"m"}
LabelKeys == {"a", "b", "error"}
\* a label set maps every key to Absent (the object has no such key),
\* Undefined (the key is there with the value undefined), the boolean true,
\* or a string
BoolTrue == "bool:true"
NoLabels == [k \in LabelKeys |-> Absent]
\* `Object.keys(labels)`
KeysOf(labels) == {k \in LabelKeys : labels[k] # Absent}
\* Metrics._convertLabels
ConvertLabels(labels) ==
    [k \in LabelKeys |->
        IF labels[k] = Undefined THEN Absent
        ELSE IF labels[k] = BoolTrue THEN "true"
        ELSE labels[k]]
\* Metrics._filterAllowed(metric, labels)
FilterAllowed(inst, labels) ==
    IF inst.labelNames = {} THEN NoLabels
    ELSE [k \in LabelKeys |-> IF k \in inst.labelNames THEN labels[k] ELSE Absent]

\* bucket and percentile ladders, buckets in thousandths and percentiles in
\* hundredths: [0.005, 0.01, 0.025, 0.05, 0.1, 0.25, 0.5, 1, 2.5, 5, 10] and
\* [0.5, 0.9, 0.95, 0.99]; the caller's own ladder is [0.1, 1]
DefaultBuckets == <<5, 10, 25, 50, 100, 250, 500, 1000, 2500, 5000, 10000>>
DefaultPercentiles == <<50, 90, 95, 99>>
CallerLadder == <<100, 1000>>
\* `buckets` / `percentiles` of a configuration: given or not
NoLadder == [given |-> FALSE, values |-> <<>>]
Ladder(values) == [given |-> TRUE, values |-> values]

NoError == [type |-> "none", name |-> ""]
\* `new Error(`Counter with name ${metricName} not found.`)`
NotFound(name) == [type |-> "not found", name |-> name]
\* prom-client: 'A metric with the name ... has already been registered.'
AlreadyRegistered(name) == [type |-> "already registered", name |-> name]
\* prom-client: 'Added label "..." is not included in initial labelset'
LabelNotDeclared(name) == [type |-> "label not declared", name |-> name]

NoConfig == [present |-> FALSE, labelNames |-> {}, ladder |-> NoLadder]
NoInstance == [present |-> FALSE, id |-> 0, labelNames |-> {}, ladder |-> NoLadder]
NoOp ==
    [op |-> "none", kind |-> "none", name |-> "", thrown |-> NoError, wrote |-> FALSE,
     inst |-> 0, given |-> NoLabels, written |-> NoLabels, collect |-> FALSE,
     ladder |-> NoLadder]
EmptyRegistry ==
    [configs |-> [k \in MetricKinds |-> [n \in MetricNames |-> NoConfig]],
     instances |-> [k \in MetricKinds |-> [n \in MetricNames |-> NoInstance]],
     register |-> {}, nextId |-> 1, ops |-> 0, cleared |-> FALSE, last |-> NoOp]

\* An execution state of registry code is [reg, thrown, inst, wrote, written]:
\* the registry, the error in flight (or NoError), the instance the code
\* holds, and the labels of the measurement it made on it, if any.
Reg(reg, thrown, inst) ==
    [reg |-> reg, thrown |-> thrown, inst |-> inst, wrote |-> FALSE, written |-> NoLabels]

\* `new Counter(config)` (Gauge, Histogram, Summary): prom-client adds the
\* instance to the default register and throws when the name is taken
NewMetric(reg, kind, name, cfg) ==
    IF name \in reg.register THEN Reg(reg, AlreadyRegistered(name), NoInstance)
    ELSE LET inst == [present |-> TRUE, id |-> reg.nextId,
                      labelNames |-> cfg.labelNames, ladder |-> cfg.ladder]
         IN  Reg([reg EXCEPT !.register = @ \cup {name}, !.nextId = @ + 1], NoError, inst)

\* `this.counters.set(name, new Counter(config))`
SetNewMetric(reg, kind, name, cfg) ==
    LET n == NewMetric(reg, kind, name, cfg)
    IN  IF n.thrown # NoError THEN n
        ELSE Reg([n.reg EXCEPT !.instances[kind][name] = n.inst], NoError, n.inst)

\* `if (!histogramConfig.buckets) histogramConfig.buckets = [...]`,
\* `if (!summaryConfig.percentiles) summaryConfig.percentiles = [...]`
\* the default replaces the caller's ladder too
DefaultLadderAlways(kind, ladder) ==
    IF kind = "histogram" THEN Ladder(DefaultBuckets)
    ELSE IF kind = "summary" THEN Ladder(DefaultPercentiles)
    ELSE ladder
DefaultLadder(kind, ladder) ==
    IF kind = "histogram" /\ ~ladder.given THEN Ladder(DefaultBuckets)
    ELSE IF kind = "summary" /\ ~ladder.given THEN Ladder(DefaultPercentiles)
    ELSE ladder

\* Metrics.registerCounter / registerGauge / registerHistogram / registerSummary;
\* cfg is [labelNames, ladder, collect], labelNames {} when the caller gave none
\* (`if (!config.labelNames) config.labelNames = []`)
RegisterMetric(reg, kind, name, cfg) ==
    LET config == [present |-> TRUE, labelNames |-> cfg.labelNames,
                   ladder |-> DefaultLadder(kind, cfg.ladder)]
    IN  IF cfg.collect THEN SetNewMetric(reg, kind, name, config)
        ELSE Reg([reg EXCEPT !.configs[kind][name] = config], NoError, NoInstance)

\* Metrics.getCounter / getGauge / getHistogram / getSummary
\* an instance is constructed on every get
GetMetricAlwaysNew(reg, kind, name) ==
    IF reg.configs[kind][name].present
    THEN SetNewMetric([reg EXCEPT !.register = @ \ {name}], kind, name,
                      reg.configs[kind][name])
    ELSE Reg(reg, NoError, reg.instances[kind][name])
GetMetric(reg, kind, name) ==
    IF ~reg.instances[kind][name].present /\ reg.configs[kind][name].present
    THEN SetNewMetric(reg, kind, name, reg.configs[kind][name])
    ELSE Reg(reg, NoError, reg.instances[kind][name])

\* Metrics._ensureCounterWithLabels / _ensureGaugeWithLabels /
\* _ensureHistogramWithLabels / _ensureSummaryWithLabels
\* an unknown name is registered by the write
EnsureWithLabelsCreates(reg, kind, name, labels) ==
    IF reg.instances[kind][name].present
    THEN Reg(reg, NoError, reg.instances[kind][name])
    ELSE SetNewMetric([reg EXCEPT !.configs[kind][name] =
                            [present |-> TRUE, labelNames |-> KeysOf(labels),
                             ladder |-> DefaultLadder(kind, NoLadder)]],
                      kind, name,
                      [present |-> TRUE, labelNames |-> KeysOf(labels),
                       ladder |-> DefaultLadder(kind, NoLadder)])
EnsureWithLabels(reg, kind, name, labels) ==
    IF reg.instances[kind][name].present
    THEN Reg(reg, NoError, reg.instances[kind][name])
    ELSE IF ~reg.configs[kind][name].present THEN Reg(reg, NoError, NoInstance)
    ELSE LET cfg == reg.configs[kind][name]
             cfg1 == [cfg EXCEPT !.ladder = DefaultLadder(kind, @)]
             cfg2 == IF cfg1.labelNames = {}
                     THEN [cfg1 EXCEPT !.labelNames = KeysOf(labels)] ELSE cfg1
         IN  SetNewMetric([reg EXCEPT !.configs[kind][name] = cfg2], kind, name, cfg2)

\* prom-client `counter.inc(labels)`, `gauge.set(labels, v)`, `observe`,
\* `startTimer(labels)`: a label that the instance does not declare throws
Measure(r, name, labels) ==
    IF KeysOf(labels) \subseteq r.inst.labelNames
    THEN [r EXCEPT !.wrote = TRUE, !.written = labels]
    ELSE [r EXCEPT !.thrown = LabelNotDeclared(name)]

\* Metrics.incrementCounter, setGauge, startGaugeTimer, observeHistogram,
\* observeSummary, startSummaryTimer
WriteMetric(reg, kind, name, labels) ==
    LET converted == ConvertLabels(labels)
        e == EnsureWithLabels(reg, kind, name, converted)
    IN  IF e.thrown # NoError THEN e
        ELSE IF ~e.inst.present THEN [e EXCEPT !.thrown = NotFound(name)]
        ELSE Measure(e, name, FilterAllowed(e.inst, converted))

\* Metrics._wrapWithCounter / _wrapWithGauge / _wrapWithHistogram /
\* _wrapWithSummary, the start of the wrapper: the instance is looked up and,
\* if there is none, registered with the keys of the wrapper's labels
\* the wrapper registers the metric even when an instance exists
WrapperMetricReregisters(reg, kind, name, labels, ladder) ==
    LET r == RegisterMetric(reg, kind, name,
                    [labelNames |-> KeysOf(labels), ladder |-> ladder, collect |-> FALSE])
    IN  GetMetric(r.reg, kind, name)
WrapperMetric(reg, kind, name, labels, ladder) ==
    LET g == GetMetric(reg, kind, name)
    IN  IF g.thrown # NoError \/ g.inst.present THEN g
        ELSE LET r == RegisterMetric(g.reg, kind, name,
                        [labelNames |-> KeysOf(labels), ladder |-> ladder, collect |-> FALSE])
             IN  GetMetric(r.reg, kind, name)

\* the labels of a wrapper: `{ ...options.labels, ...dynamicLabels, error: 'none' }`
\* for counter and histogram, `{ ...options.labels, ...dynamicLabels }` for
\* gauge and summary
WrapperLabels(kind, labels) ==
    IF kind \in {"counter", "histogram"} THEN [labels EXCEPT !["error"] = "none"] ELSE labels

\* the measurement of a wrapper: `counter.inc(labels)`, `histogram.startTimer(labels)`,
\* `gauge.set(labels, res)`, `summary.observe(labels, res)`, with the
\* wrapper's labels as they are
WrapperWrite(reg, kind, name, labels, ladder) ==
    LET w == WrapperMetric(reg, kind, name, labels, ladder)
    IN  IF w.thrown # NoError THEN w ELSE Measure(w, name, labels)

\* Metrics.clear(); `cleared` remembers that it was called
ClearRegistry(reg) ==
    [reg EXCEPT !.register = {}, !.cleared = TRUE,
                !.instances = [k \in MetricKinds |->
                    IF k = "summary" THEN @[k] ELSE [n \in MetricNames |-> NoInstance]]]

\* what the operation leaves behind for the caller
Completed(r, op, kind, name, given, collect, ladder) ==
    [r.reg EXCEPT !.ops = @ + 1,
                  !.last = [op |-> op, kind |-> kind, name |-> name, thrown |-> r.thrown,
                            wrote |-> r.wrote, inst |-> r.inst.id, given |-> given,
                            written |-> r.written, collect |-> collect,
                            ladder |-> ladder]]

\* ---------------------------------------------------------------- tracing-config.ts
\* the flags of the module and, for the properties, what the diag loggers
\* passed to maybeWarnLegacy have received so far, the number of calls of
\* maybeWarnLegacy and whether the last one was given a diag
LegacyWarning == "[Tracing] Legacy mode active"
LimitsWarning == "[Tracing] Span limits are disabled"
\* TRACES_ENABLE_LIMITS is not set
InitialConfig ==
    [enableSpanLimits |-> FALSE, warnOncePromise |-> FALSE, warnOnceLimits |-> FALSE,
     warnings |-> <<>>, observations |-> 0, diag |-> FALSE]

\* maybeWarnLegacy(diag) with the tracing mode m
\* the flags are never set
MaybeWarnLegacyEveryTime(cfg, m, diag) ==
    LET c1 == IF m = "legacy-always-promise" /\ diag
              THEN [cfg EXCEPT !.warnings = Append(@, LegacyWarning)] ELSE cfg
    IN  IF ~c1.enableSpanLimits /\ diag
        THEN [c1 EXCEPT !.warnings = Append(@, LimitsWarning)] ELSE c1
MaybeWarnLegacy(cfg, m, diag) ==
    LET c1 == IF m = "legacy-always-promise" /\ diag /\ ~cfg.warnOncePromise
              THEN [cfg EXCEPT !.warnOncePromise = TRUE,
                               !.warnings = Append(@, LegacyWarning)]
              ELSE cfg
    IN  IF ~c1.warnOnceLimits /\ ~c1.enableSpanLimits /\ diag
        THEN [c1 EXCEPT !.warnOnceLimits = TRUE, !.warnings = Append(@, LimitsWarning)]
        ELSE c1
\* ---------------------------------------------------------------- decorator factories
\* Traces.trace(options) and Metrics.counter / gauge / histogram / summary(options)
\* return a factory that is applied in one of two conventions:
\* A: (value, ctx) with ctx = { kind, name }        (TC39 decorators)
\* B: (target, propertyKey, descriptor)              (legacy decorators)
Decorators == {"trace"} \cup MetricKinds
\* ctx.kind
ContextKinds == {"method", "getter", "setter", "field", "auto-accessor"}
\* what the runtime passes as `value`: the method, getter or setter itself,
\* undefined for a field, the { get, set } pair for an auto-accessor
RuntimeValue(kind) ==
    IF kind = "field" THEN Undefined
    ELSE IF kind = "auto-accessor" THEN "accessor"
    ELSE "function"
\* the slots of a property descriptor that hold a function; "none": no descriptor
Descriptors == {"value", "get", "set", "getset", "none"}
\* a member name: a string, the empty string, or a symbol
SymbolName == "symbol"
MemberNames == {"m", "", SymbolName}
\* `typeof name === 'string'`
IsString(name) == name # SymbolName
\* `x || y`
OrElse(x, y) == IF x \in {Undefined, ""} THEN y ELSE x

\* Traces._wrapCallableWithTracing(originalFn, options, inferredSpanName, inferredModuleName):
\* `spanName = inferredSpanName || originalFn.name || 'anonymous'` is the
\* default of options.spanName, `moduleName = inferredModuleName || getCallerFile()`
\* that of options.moduleName (not given here)
WrapCallableWithTracing(fnName, spanNameOption, inferredSpanName, inferredModuleName) ==
    [decorator |-> "trace", original |-> fnName,
     spanName |-> IF spanNameOption # Undefined THEN spanNameOption
                  ELSE OrElse(inferredSpanName, OrElse(fnName, "anonymous")),
     moduleName |-> OrElse(inferredModuleName, "callerFile"),
     closure |-> ClosureWith(FALSE, Undefined,
                    [attributes |-> NoAttrs, dynamicAttributes |-> "none", fnName |-> fnName])]
\* Metrics._wrapWithCounter(original, options) and its siblings
WrapWithMetric(kind, fnName) ==
    [decorator |-> kind, original |-> fnName, spanName |-> Undefined,
     moduleName |-> Undefined, closure |-> MetricClosure(kind, FALSE)]
NoCallable ==
    [decorator |-> "none", original |-> Undefined, spanName |-> Undefined,
     moduleName |-> Undefined, closure |-> NoWrap]

\* Convention A: `const inferredName = typeof ctx.name === 'string' ? ctx.name : 'anonymous'`
InferredNameA(name) == IF IsString(name) THEN name ELSE "anonymous"
\* Convention B: `options.spanName || (typeof propertyKey === 'string' ? propertyKey : 'anonymous')`
\* the property key is not used
InferredNameBAnonymous(spanNameOption, propertyKey) == OrElse(spanNameOption, "anonymous")
InferredNameB(spanNameOption, propertyKey) ==
    OrElse(spanNameOption, IF IsString(propertyKey) THEN propertyKey ELSE "anonymous")

\* the callable the decorator dec builds around the function named fnName;
\* i is the input of the decoration: [decorator, target, value, name, spanName, fnName]
WrapA(i, fnName) ==
    IF i.decorator = "trace"
    THEN WrapCallableWithTracing(fnName, i.spanName, InferredNameA(i.name), "callerFile")
    ELSE WrapWithMetric(i.decorator, fnName)
\* `options.moduleName || target?.constructor?.name || getCallerFile()`
WrapB(i, fnName) ==
    IF i.decorator = "trace"
    THEN WrapCallableWithTracing(fnName, i.spanName, InferredNameB(i.spanName, i.name),
                                 "className")
    ELSE WrapWithMetric(i.decorator, fnName)

\* what a factory returns: the wrapped callable ("callable"), an initializer
\* function ("initializer"), an object with an init function ("init-object"),
\* the descriptor with one slot replaced ("descriptor"), the descriptor as it
\* was, or undefined (`return decoratorArgs[2]`)
Returned(form, slot, callable) == [form |-> form, slot |-> slot, callable |-> callable]

\* factory(value, ctx)
ConventionA(i) ==
    IF i.value # "function" THEN Returned("undefined", "none", NoCallable)
    ELSE IF i.target = "field" THEN Returned("initializer", "none", NoCallable)
    ELSE IF i.target = "auto-accessor" THEN Returned("init-object", "none", NoCallable)
    ELSE Returned("callable", "none", WrapA(i, i.fnName))

\* factory(target, propertyKey, descriptor):
\* `descriptor.value ?? descriptor.get ?? descriptor.set` is wrapped and put
\* back into the slot it came from
ConventionB(i) ==
    IF i.target = "none" THEN Returned("undefined", "none", NoCallable)
    ELSE Returned("descriptor", IF i.target = "getset" THEN "get" ELSE i.target,
                  WrapB(i, i.fnName))

\* the initializer a field or auto-accessor decoration returned, applied to
\* the initial value of an instance: a function (named fnName) or not
Initializer(i, initialValue, fnName) ==
    IF initialValue # "function" THEN Returned("value", "none", NoCallable)
    ELSE Returned("callable", "none", WrapA(i, fnName))

NoInput ==
    [decorator |-> "none", target |-> "none", value |-> Undefined, name |-> "",
     spanName |-> Undefined, fnName |-> ""]
NotApplied ==
    [applied |-> FALSE, input |-> NoInput, result |-> Returned("none", "none", NoCallable),
     initialValue |-> "none", initialized |-> Returned("none", "none", NoCallable)]
NotDecorated == [A |-> NotApplied, B |-> NotApplied]

\* ---------------------------------------------------------------- instrumentation.ts
\* a span exporter: the class it was built from, whether it carries
\* NOOP_EXPORTER_FLAG, and who built it
NoExporter == [class |-> "none", noop |-> FALSE, by |-> "none", forceFlush |-> FALSE]
\* makeNoopExporter()
MakeNoopExporter == [class |-> "Noop", noop |-> TRUE, by |-> "library", forceFlush |-> TRUE]
ConsoleSpanExporter ==
    [class |-> "ConsoleSpanExporter", noop |-> FALSE, by |-> "library", forceFlush |-> TRUE]
OTLPTraceExporter ==
    [class |-> "OTLPTraceExporter", noop |-> FALSE, by |-> "library", forceFlush |-> TRUE]
\* a concrete SpanExporter of the caller; one that carries the flag is the
\* no-op exporter an earlier initInstrumentation returned
\* forceFlush is optional in the SpanExporter interface
UserExporter == [class |-> "UserExporter", noop |-> FALSE, by |-> "user", forceFlush |-> TRUE]
UserExporterNoFlush ==
    [class |-> "UserExporter", noop |-> FALSE, by |-> "user", forceFlush |-> FALSE]
ReturnedNoopExporter == [class |-> "Noop", noop |-> TRUE, by |-> "user", forceFlush |-> TRUE]

\* options.exporter: undefined, a descriptor { kind }, or a concrete exporter
\* (`typeof exporter.export === 'function'`); "other" is a descriptor whose
\* kind the switch does not know
ExporterDescriptors == {"console", "noop", "otlp", "other"}
ExporterInstances == {UserExporter, UserExporterNoFlush, ReturnedNoopExporter}

\* resolveExporter(opts); opts.exporter is [given, descriptor, instance]
NoExporterInput == [given |-> "none", kind |-> "none", instance |-> NoExporter]
Descriptor(kind) == [given |-> "descriptor", kind |-> kind, instance |-> NoExporter]
Instance(e) == [given |-> "instance", kind |-> "none", instance |-> e]
LegacyExporter(opts) ==
    IF ~opts.localDebugging /\ ~opts.url THEN MakeNoopExporter
    ELSE IF opts.localDebugging THEN ConsoleSpanExporter
    ELSE OTLPTraceExporter
ResolveExporter(opts) ==
    IF opts.exporter.given = "instance" THEN opts.exporter.instance
    ELSE IF opts.exporter.given = "descriptor" /\ opts.exporter.kind = "console"
    THEN ConsoleSpanExporter
    ELSE IF opts.exporter.given = "descriptor" /\ opts.exporter.kind = "noop"
    THEN MakeNoopExporter
    ELSE IF opts.exporter.given = "descriptor" /\ opts.exporter.kind = "otlp"
    THEN OTLPTraceExporter
    ELSE LegacyExporter(opts)

\* a span processor: a BatchSpanProcessor the library builds around an
\* exporter, or a processor of the caller
BatchSpanProcessor(exporter) == [class |-> "BatchSpanProcessor", exporter |-> exporter, by |-> "library"]
UserProcessor(n) == [class |-> n, exporter |-> NoExporter, by |-> "user"]
\* `SpanProcessor[] | undefined`
NoProcessors == [defined |-> FALSE, list |-> <<>>]
Processors(list) == [defined |-> TRUE, list |-> list]

\* resolveSpanProcessors(exporter, provided)
\* a default processor is built around the no-op exporter too
ResolveSpanProcessorsNoopToo(exporter, provided) ==
    IF provided.defined /\ Len(provided.list) > 0 THEN provided
    ELSE IF exporter = NoExporter THEN NoProcessors
    ELSE Processors(<<BatchSpanProcessor(exporter)>>)
ResolveSpanProcessors(exporter, provided) ==
    IF provided.defined /\ Len(provided.list) > 0 THEN provided
    ELSE IF exporter = NoExporter THEN NoProcessors
    ELSE IF exporter.noop THEN NoProcessors
    ELSE Processors(<<BatchSpanProcessor(exporter)>>)

\* new NodeSDK({ contextManager, spanProcessors: processors,
\*               ...(processors?.length ? {} : { traceExporter: exporter }), spanLimits })
NodeSDK(id, exporter, processors, limits) ==
    [id |-> id, spanProcessors |-> processors,
     traceExporter |-> IF processors.defined /\ Len(processors.list) > 0
                       THEN NoExporter ELSE exporter,
     spanLimits |-> limits, started |-> FALSE, shutdowns |-> 0]

NoInitOptions ==
    [exporter |-> NoExporterInput, url |-> FALSE, localDebugging |-> FALSE,
     spanProcessors |-> NoProcessors, spanLimits |-> FALSE, tracingMode |-> Undefined]
\* the module state of instrumentation.ts: `let sdk`, `let contextManager`
\* (0: undefined, else the number of the initInstrumentation call that made
\* it), `let createdTraceExporter`, `let effectiveSpanProcessors`; the SDKs
\* built so far; whether the global trace / context / propagation APIs are
\* registered; the calls of shutDownInstrumentation and the steps they took
NotInitialized ==
    [sdk |-> 0, contextManager |-> 0, createdTraceExporter |-> NoExporter,
     effectiveSpanProcessors |-> NoProcessors, sdks |-> <<>>, api |-> FALSE,
     options |-> NoInitOptions, shutdowns |-> <<>>, steps |-> <<>>]

\* ---------------------------------------------------------------- init
NoGet ==
    [mode |-> "none", active |-> NoSpan, span |-> NoSpan, createdSpan |-> FALSE,
     options |-> NoOptions]

Init ==
    /\ mode \in TracingModes
    /\ wrapped = NoWrap
    /\ spans = <<>>
    /\ calls = [c \in Calls |-> IdleCall]
    /\ stack = <<>>
    /\ lastGet = NoGet
    /\ registry = EmptyRegistry
    /\ tracingConfig = InitialConfig
    /\ decorated = NotDecorated
    /\ instrumentation = NotInitialized

\* ---------------------------------------------------------------- user code
\* tracing-config.ts setTracingMode (also initInstrumentation({tracingMode}))
SetTracingMode(m) ==
    /\ stack = <<>>
    /\ mode' = m
    /\ UNCHANGED <<wrapped, spans, calls, stack, lastGet, registry, tracingConfig, decorated, instrumentation>>

\* Traces.withTracing(fn, options)
WithTracing(createNewSpan, startMode) ==
    /\ stack = <<>>
    /\ ~wrapped.made
    /\ wrapped' = Closure(createNewSpan, startMode)
    /\ UNCHANGED <<mode, spans, calls, stack, lastGet, registry, tracingConfig, decorated, instrumentation>>

\* @Traces.trace(options) applied to a member: Traces._wrapCallableWithTracing
TraceDecorator(createNewSpan, startMode) ==
    /\ stack = <<>>
    /\ ~wrapped.made
    /\ wrapped' = Closure(createNewSpan, startMode)
    /\ UNCHANGED <<mode, spans, calls, stack, lastGet, registry, tracingConfig, decorated, instrumentation>>

\* @Metrics.counter(options), @Metrics.gauge(options, timed),
\* @Metrics.histogram(options), @Metrics.summary(options, timed)
MetricDecorator(kind, timed) ==
    /\ stack = <<>>
    /\ ~wrapped.made
    /\ kind \in {"counter", "histogram"} => ~timed
    /\ wrapped' = MetricClosure(kind, timed)
    /\ UNCHANGED <<mode, spans, calls, stack, lastGet, registry, tracingConfig, decorated, instrumentation>>

\* user code starts the span it will make active for its calls, as the
\* repository's tests do, before it calls the wrapped callable
UserGetSpan(smode, act) ==
    /\ stack = <<>>
    /\ \A c \in Calls : calls[c].pc = "idle"
    /\ act \in ActiveChoices
    /\ Cardinality(UserSpans) < MaxUserSpans
    /\ spans' = GetSpan(spans, NoOptions, smode, act, User).spans
    /\ UNCHANGED <<mode, wrapped, calls, stack, lastGet, registry, tracingConfig, decorated, instrumentation>>

\* ---------------------------------------------------------------- a call
\* The tracing wrapper from its entry to the invocation of the original callable:
\*   const currentSpan = Traces.getCurrentSpan();
\*   const shouldTrace = ...;
\*   if (!shouldTrace) { const res = originalFn.apply(this, args); ... }
\*   const dyn = dynamicAttributes ? dynamicAttributes(args) : {};
\*   const { span, createdSpan } = Traces.getSpan(spanName, spanOptions, startMode, moduleName);
\*   let spanEnded = false;
\*   context.with(trace.setSpan(context.active(), span), () => originalFn.apply(this, args))
\* the original is invoked without context.with: the span is not made active
EnterTraceNoContext(r, sp, c) ==
    LET r1 == Logged(r, "gate")
    IN  IF r.gateThrows
        THEN [sp |-> sp, r |-> [r1 EXCEPT !.pc = "done", !.res = ResThrow(GateErr)]]
        ELSE IF ~ShouldTrace(r1)
        THEN [sp |-> sp,
              r |-> [Logged(r1, "orig") EXCEPT !.pc = "origU",
                                               !.origArgs = Append(@, r.args)]]
        ELSE LET spanOptions == SpanOptions(wrapped, r.args)
                 r2 == [Logged(r1, "dyn") EXCEPT !.spanOptions = spanOptions]
                 g == GetSpan(sp, spanOptions, wrapped.startMode, r.active, c)
                 r3 == [Logged(r2, "getSpan") EXCEPT !.span = g.span,
                                                     !.createdSpan = g.createdSpan,
                                                     !.spanEnded = FALSE]
             IN  [sp |-> g.spans,
                  r |-> [Logged(r3, "orig") EXCEPT !.pc = "orig",
                                                   !.origArgs = Append(@, r.args)]]
\* the span is resolved before the predicate is asked
EnterTraceSpanFirst(r, sp, c) ==
    LET g == GetSpan(sp, SpanOptions(wrapped, r.args), wrapped.startMode, r.active, c)
        r1 == Logged(Logged(r, "getSpan"), "gate")
    IN  IF r.gateThrows
        THEN [sp |-> g.spans, r |-> [r1 EXCEPT !.pc = "done", !.res = ResThrow(GateErr)]]
        ELSE IF ~ShouldTrace(r1)
        THEN [sp |-> sp,
              r |-> [Logged(r1, "orig") EXCEPT !.pc = "origU",
                                               !.origArgs = Append(@, r.args)]]
        ELSE [sp |-> g.spans,
              r |-> [Logged(r1, "orig") EXCEPT
                        !.span = g.span, !.createdSpan = g.createdSpan,
                        !.spanOptions = SpanOptions(wrapped, r.args),
                        !.pc = "orig", !.ctx = g.span, !.origArgs = Append(@, r.args)]]
EnterTrace(r, sp, c) ==
    LET r1 == Logged(r, "gate")
    IN  IF r.gateThrows
        THEN [sp |-> sp, r |-> [r1 EXCEPT !.pc = "done", !.res = ResThrow(GateErr)]]
        ELSE IF ~ShouldTrace(r1)
        THEN [sp |-> sp,
              r |-> [Logged(r1, "orig") EXCEPT !.pc = "origU",
                                               !.origArgs = Append(@, r.args)]]
        ELSE LET spanOptions == SpanOptions(wrapped, r.args)
                 r2 == [Logged(r1, "dyn") EXCEPT !.spanOptions = spanOptions]
                 g == GetSpan(sp, spanOptions, wrapped.startMode, r.active, c)
                 r3 == [Logged(r2, "getSpan") EXCEPT !.span = g.span,
                                                     !.createdSpan = g.createdSpan,
                                                     !.spanEnded = FALSE]
             IN  [sp |-> g.spans,
                  r |-> [Logged(r3, "orig") EXCEPT !.pc = "orig", !.ctx = g.span,
                                                   !.origArgs = Append(@, r.args)]]

\* A metric wrapper from its entry to the invocation of the original callable:
\*   const labels = { ...(options.labels || {}), ...dynamicLabels, error: 'none' };
\*   let counter = Metrics.getCounter(options.metricName); if (!counter) { registerCounter ... }
\*   const endTimer = histogram.startTimer(labels)   (gauge, summary: if (timed))
\*   const res = original.apply(this, args)
EnterMetric(r, sp) ==
    LET timer == wrapped.kind = "histogram" \/ wrapped.timed
        r1 == [Logged(r, "labels") EXCEPT
                    !.labelErr = IF wrapped.kind \in {"counter", "histogram"}
                                 THEN "none" ELSE Nothing]
        r2 == Logged(r1, "ensure")
        r3 == IF timer THEN [Logged(r2, "timer") EXCEPT !.timer = TRUE] ELSE r2
    IN  [sp |-> sp,
         r |-> [Logged(r3, "orig") EXCEPT !.pc = "orig", !.origArgs = Append(@, r.args)]]

Enter(r, sp, c) ==
    IF wrapped.kind = "trace" THEN EnterTrace(r, sp, c) ELSE EnterMetric(r, sp)

\* user code calls the wrapped callable with arguments a where the active
\* span is act; g is what the gating predicate yields for this call
Invoke(c, a, g, act) ==
    /\ IF stack = <<>> THEN TRUE ELSE calls[Top].pc \in {"orig", "origU"}
    /\ wrapped.made
    /\ wrapped.kind # "trace" => g
    /\ calls[c].pc = "idle"
    /\ \A d \in Calls : d < c => calls[d].pc # "idle"
    /\ act \in ActiveChoices
    /\ LET e == Enter([IdleCall EXCEPT !.active = act, !.ctx = act,
                                       !.args = a, !.gateIn = g], spans, c)
       IN  /\ calls' = [calls EXCEPT ![c] = e.r]
           /\ spans' = e.sp
    /\ stack' = Append(stack, c)
    /\ UNCHANGED <<mode, wrapped, lastGet, registry, tracingConfig, decorated, instrumentation>>

\* user code calls a traced callable whose traceOnlyIf predicate throws: the
\* error leaves the wrapper at once
InvokeGateThrows(c, a, act) ==
    /\ IF stack = <<>> THEN TRUE ELSE calls[Top].pc \in {"orig", "origU"}
    /\ wrapped.made
    /\ wrapped.kind = "trace"
    /\ calls[c].pc = "idle"
    /\ \A d \in Calls : d < c => calls[d].pc # "idle"
    /\ act \in ActiveChoices
    /\ LET e == EnterTrace([IdleCall EXCEPT !.active = act, !.ctx = act, !.args = a,
                                            !.gateThrows = TRUE], spans, c)
       IN  /\ calls' = [calls EXCEPT ![c] = e.r]
           /\ spans' = e.sp
    /\ UNCHANGED <<mode, wrapped, stack, lastGet, registry, tracingConfig, decorated, instrumentation>>

\* the original callable returns or throws (out is [form, payload]) and the
\* wrapper runs until it returns to its caller
OrigCompletes(c, out, fs) ==
    /\ Running(c)
    /\ calls[c].pc \in {"orig", "origU"}
    /\ LET r == [calls[c] EXCEPT !.out = out]
       IN  IF r.pc = "origU"
           THEN /\ calls' = [calls EXCEPT ![c] =
                        [Logged(r, ReturnEvent(UntracedResult(wrapped.coerce, out))) EXCEPT
                            !.res = UntracedResult(wrapped.coerce, out),
                            !.pc = IF out.form \in {"promise", "thenable"}
                                   THEN "awaitU" ELSE "done"]]
                /\ spans' = spans
           ELSE IF out.form # "throw" /\ IsDeferred(out.form)
           THEN /\ calls' = [calls EXCEPT ![c] =
                        [Logged(r, "pending") EXCEPT
                            !.pc = "await", !.reactions = Reactions,
                            !.res = ResPromise("pending", Nothing)]]
                /\ spans' = spans
           ELSE LET t == RunSync([sp |-> spans, r |-> r, thrown |-> Nothing], out, c, fs)
                IN  /\ calls' = [calls EXCEPT ![c] =
                            [t.r EXCEPT !.pc = IF t.r.res.state = "pending"
                                               THEN "awaitU" ELSE "done"]]
                    /\ spans' = t.sp
    /\ stack' = Pop
    /\ UNCHANGED <<mode, wrapped, lastGet, registry, tracingConfig, decorated, instrumentation>>

OrigReturns(c, v, fs) == OrigCompletes(c, [form |-> "value", payload |-> v], fs)
OrigThrows(c, e, fs) == OrigCompletes(c, [form |-> "throw", payload |-> e], fs)
OrigDefers(c, form, fs) == OrigCompletes(c, [form |-> form, payload |-> Nothing], fs)

\* the promise (or thenable) the original callable returned settles; one
\* the wrapper handed to its caller as it was settles for the caller
OrigSettles(c, ok, p) ==
    /\ stack = <<>>
    /\ calls[c].pc \in {"await", "awaitU"}
    /\ IF calls[c].pc = "awaitU"
       THEN calls' = [calls EXCEPT ![c] =
                [Logged(@, "settle") EXCEPT
                    !.res = ResPromise(IF ok THEN "fulfilled" ELSE "rejected", p),
                    !.chain = [ok |-> ok, payload |-> p],
                    !.settledWith = [ok |-> ok, payload |-> p], !.pc = "done"]]
       ELSE calls' = [calls EXCEPT ![c] =
                [@ EXCEPT !.chain = [ok |-> ok, payload |-> p],
                          !.settledWith = [ok |-> ok, payload |-> p], !.pc = "chain"]]
    /\ UNCHANGED <<mode, wrapped, spans, stack, lastGet, registry, tracingConfig, decorated, instrumentation>>

\* the next reaction of `result.then(..).catch(..).finally(..)` runs: a
\* .then callback when the promise before it is fulfilled, a .catch callback
\* when it is rejected, a .finally callback always; a callback that throws
\* rejects the promise it feeds
React(c, fs) ==
    /\ stack = <<>>
    /\ calls[c].pc = "chain"
    /\ calls[c].reactions # <<>>
    /\ LET r == [calls[c] EXCEPT !.reactions = Tail(@)]
           k == Head(calls[c].reactions)
           due == \/ k = "then" /\ r.chain.ok
                  \/ k = "catch" /\ ~r.chain.ok
                  \/ k = "finally"
           t == RunOps([sp |-> spans, thrown |-> Nothing,
                        r |-> [r EXCEPT !.err = IF k = "catch" THEN r.chain.payload ELSE @]],
                       Callback(k), c, r.chain.payload, fs, TRUE)
       IN  IF due
           THEN /\ calls' = [calls EXCEPT ![c] =
                        IF t.thrown = Nothing THEN t.r
                        ELSE [t.r EXCEPT !.chain = [ok |-> FALSE, payload |-> t.thrown]]]
                /\ spans' = t.sp
           ELSE /\ calls' = [calls EXCEPT ![c] = r]
                /\ spans' = spans
    /\ UNCHANGED <<mode, wrapped, stack, lastGet, registry, tracingConfig, decorated, instrumentation>>

\* the promise the wrapper returned settles
Settle(c) ==
    /\ stack = <<>>
    /\ calls[c].pc = "chain"
    /\ calls[c].reactions = <<>>
    /\ calls' = [calls EXCEPT ![c] =
            [Logged(@, "settle") EXCEPT
                !.res = ResPromise(IF calls[c].chain.ok THEN "fulfilled" ELSE "rejected",
                                   calls[c].chain.payload),
                !.pc = "done"]]
    /\ UNCHANGED <<mode, wrapped, spans, stack, lastGet, registry, tracingConfig, decorated, instrumentation>>

SpanIds == 0..(MaxCalls + MaxUserSpans)
OptStartModes == StartModes \cup {Undefined}
DeferredForms == {"promise", "thenable"}

Environment ==
    \/ \E m \in TracingModes : SetTracingMode(m)
    \/ \E cn \in BOOLEAN, sm \in OptStartModes : WithTracing(cn, sm)
    \/ \E cn \in BOOLEAN, sm \in OptStartModes : TraceDecorator(cn, sm)
    \/ \E k \in MetricKinds, t \in BOOLEAN : MetricDecorator(k, t)
    \/ \E sm \in StartModes, act \in SpanIds : UserGetSpan(sm, act)
    \/ \E c \in Calls, a \in Args, g \in BOOLEAN, act \in SpanIds : Invoke(c, a, g, act)
    \/ \E c \in Calls, v \in Values : OrigSettles(c, TRUE, v)
    \/ \E c \in Calls, e \in Errors : OrigSettles(c, FALSE, e)
    \/ \E c \in Calls : Settle(c)

\* the backend works: no span or metric operation throws
Next ==
    \/ Environment
    \/ \E c \in Calls, v \in Values : OrigReturns(c, v, {})
    \/ \E c \in Calls, e \in Errors : OrigThrows(c, e, {})
    \/ \E c \in Calls, f \in DeferredForms : OrigDefers(c, f, {})
    \/ \E c \in Calls : React(c, {})

Spec == Init /\ [][Next]_vars

\* the event loop runs every promise reaction that is due: the callbacks of
\* `result.then(..).catch(..).finally(..)` and the settlement of the promise
\* the wrapper returned; it can do so because synchronous code comes to an
\* end: an original callable that was invoked returns, throws or defers
NextLive ==
    \/ \E cn \in BOOLEAN, sm \in OptStartModes : WithTracing(cn, sm)
    \/ \E k \in MetricKinds, t \in BOOLEAN : MetricDecorator(k, t)
    \/ \E c \in Calls, a \in Args, g \in BOOLEAN, act \in SpanIds : Invoke(c, a, g, act)
    \/ \E c \in Calls, v \in Values : OrigSettles(c, TRUE, v)
    \/ \E c \in Calls, e \in Errors : OrigSettles(c, FALSE, e)
    \/ \E c \in Calls : Settle(c)
    \/ \E c \in Calls, v \in Values : OrigReturns(c, v, {})
    \/ \E c \in Calls, e \in Errors : OrigThrows(c, e, {})
    \/ \E c \in Calls, f \in DeferredForms : OrigDefers(c, f, {})
    \/ \E c \in Calls : React(c, {})
\* calls whose gating predicate may throw, with spans of user code around
NextGate ==
    \/ NextLive
    \/ \E sm \in StartModes, act \in SpanIds : UserGetSpan(sm, act)
    \/ \E c \in Calls, a \in Args, act \in SpanIds : InvokeGateThrows(c, a, act)
SpecGate == Init /\ [][NextGate]_vars

SpecLive ==
    /\ Init /\ [][NextLive]_vars
    /\ \A c \in Calls :
          /\ WF_vars(React(c, {}))
          /\ WF_vars(Settle(c))
          /\ WF_vars(\E v \in Values : OrigReturns(c, v, {}))

\* a backend operation may throw: within one run of wrapper code, every call
\* of the operations in fs throws
BackendOps == {"setStatus", "recordException", "end", "inc", "endTimer", "set"}
FaultSets == {{}} \cup {{b} : b \in BackendOps}

NextFault ==
    \/ \E cn \in BOOLEAN, sm \in OptStartModes : WithTracing(cn, sm)
    \/ \E k \in MetricKinds, t \in BOOLEAN : MetricDecorator(k, t)
    \/ \E c \in Calls, a \in Args, g \in BOOLEAN, act \in SpanIds : Invoke(c, a, g, act)
    \/ \E c \in Calls, v \in Values : OrigSettles(c, TRUE, v)
    \/ \E c \in Calls, e \in Errors : OrigSettles(c, FALSE, e)
    \/ \E c \in Calls : Settle(c)
    \/ \E c \in Calls, v \in Values, fs \in FaultSets : OrigReturns(c, v, fs)
    \/ \E c \in Calls, e \in Errors, fs \in FaultSets : OrigThrows(c, e, fs)
    \/ \E c \in Calls, f \in DeferredForms, fs \in FaultSets : OrigDefers(c, f, fs)
    \/ \E c \in Calls, fs \in FaultSets : React(c, fs)

SpecFault == Init /\ [][NextFault]_vars

\* the same with the event loop's progress (see SpecLive)
SpecLiveFault ==
    /\ Init /\ [][NextFault]_vars
    /\ \A c \in Calls :
          /\ WF_vars(\E fs \in FaultSets : React(c, fs))
          /\ WF_vars(Settle(c))
          /\ WF_vars(\E v \in Values, fs \in FaultSets : OrigReturns(c, v, fs))

\* ---------------------------------------------------------------- Traces.getSpan alone
\* what callers pass for otel.collector.sampling.keep: nothing, true, false,
\* or 0
KeepValues == {Absent, "true", "false", "zero"}
CallerOptions ==
    {NoOptions, [given |-> TRUE, hasAttributes |-> FALSE, attributes |-> NoAttrs]}
        \cup {OptionsWith([NoAttrs EXCEPT ![SamplingKey] = v]) : v \in KeepValues}

\* user code calls Traces.getSpan(name, options, smode) where the active span is act
GetSpanCall(options, smode, act) ==
    /\ act \in {NoSpan} \cup (1..Len(spans))
    /\ Len(spans) < MaxGetSpans \/ (smode = "reuse" /\ act # NoSpan)
    /\ LET g == GetSpan(spans, options, smode, act, User)
       IN  /\ spans' = g.spans
           /\ lastGet' = [mode |-> smode, active |-> act, span |-> g.span,
                          createdSpan |-> g.createdSpan, options |-> options]
    /\ UNCHANGED <<mode, wrapped, calls, stack, registry, tracingConfig, decorated, instrumentation>>

\* user code calls the deprecated Traces.getCurrentSpanOrCreateNew(name, options, createNewSpan)
GetCurrentSpanOrCreateNewCall(options, createNewSpan, act) ==
    /\ act \in {NoSpan} \cup (1..Len(spans))
    /\ Len(spans) < MaxGetSpans \/ (~createNewSpan /\ act # NoSpan)
    /\ LET g == GetCurrentSpanOrCreateNew(spans, options, createNewSpan, act, User)
       IN  /\ spans' = g.spans
           /\ lastGet' = [mode |-> IF createNewSpan THEN "legacy-create" ELSE "legacy-current",
                          active |-> act, span |-> g.span,
                          createdSpan |-> g.createdSpan, options |-> options]
    /\ UNCHANGED <<mode, wrapped, calls, stack, registry, tracingConfig, decorated, instrumentation>>

\* user code ends a span it got: `span.end()`
UserEndSpan(s) ==
    /\ s \in 1..Len(spans)
    /\ spans[s].ended = 0
    /\ spans' = SpanEnd(spans, s, User)
    /\ UNCHANGED <<mode, wrapped, calls, stack, lastGet, registry, tracingConfig, decorated, instrumentation>>

NextGetSpan ==
    \/ \E o \in CallerOptions, sm \in StartModes, act \in 0..MaxGetSpans :
            GetSpanCall(o, sm, act)
    \/ \E o \in CallerOptions, cn \in BOOLEAN, act \in 0..MaxGetSpans :
            GetCurrentSpanOrCreateNewCall(o, cn, act)
    \/ \E s \in 1..MaxGetSpans : UserEndSpan(s)

SpecGetSpan == Init /\ [][NextGetSpan]_vars

\* ---------------------------------------------------------------- attributes of traced calls
\* the options a callable is wrapped with: static attributes, a
\* dynamicAttributes function or none, and the callable's own name
StaticAttributes ==
    {NoAttrs, [NoAttrs EXCEPT !["k"] = "static"],
     [NoAttrs EXCEPT !["k"] = "static", ![FunctionNameKey] = "static"]}
TraceOptions ==
    [attributes : StaticAttributes, dynamicAttributes : {"none", "byArgs"},
     fnName : {"", "fn"}]

\* Traces.withTracing(fn, { attributes, dynamicAttributes, startMode })
WithTracingOptions(startMode, o) ==
    /\ stack = <<>>
    /\ ~wrapped.made
    /\ wrapped' = ClosureWith(FALSE, startMode, o)
    /\ UNCHANGED <<mode, spans, calls, stack, lastGet, registry, tracingConfig, decorated, instrumentation>>

AttrArgs == {"a", "b"}

NextAttrs ==
    \/ \E sm \in StartModes, o \in TraceOptions : WithTracingOptions(sm, o)
    \/ \E c \in Calls, a \in AttrArgs, g \in BOOLEAN, act \in SpanIds : Invoke(c, a, g, act)
    \/ \E c \in Calls, v \in Values : OrigReturns(c, v, {})

SpecAttrs == Init /\ [][NextAttrs]_vars

\* ---------------------------------------------------------------- metric wrappers
\* The metric decorators alone, over originals that return a number or a
\* text, throw or reject with an Error ("E1", a RangeError) or with a value
\* that has no `name` ("E0", as in `throw {}`), or return a native promise or
\* a thenable of another promise implementation.
MetricValues == Numbers \cup {"text"}
MetricErrors == Errors \cup {"E0"}

NextMetrics ==
    \/ \E k \in MetricKinds, t \in BOOLEAN : MetricDecorator(k, t)
    \/ \E c \in Calls, a \in Args : Invoke(c, a, TRUE, NoSpan)
    \/ \E c \in Calls, v \in MetricValues : OrigReturns(c, v, {})
    \/ \E c \in Calls, e \in MetricErrors : OrigThrows(c, e, {})
    \/ \E c \in Calls, f \in DeferredForms : OrigDefers(c, f, {})
    \/ \E c \in Calls, v \in MetricValues : OrigSettles(c, TRUE, v)
    \/ \E c \in Calls, e \in MetricErrors : OrigSettles(c, FALSE, e)
    \/ \E c \in Calls : React(c, {})
    \/ \E c \in Calls : Settle(c)

SpecMetrics == Init /\ [][NextMetrics]_vars

\* ---------------------------------------------------------------- registry operations
\* The programmatic API of Metrics and the start of the metric wrappers,
\* over one metric name, with at most MaxRegistryOps operations in a run.
LabelNameSets == {{}, {"a"}}
\* `{ a: true, b: 'x' }` and `{ a: undefined, b: 'x' }`
LabelSets ==
    {[NoLabels EXCEPT !["a"] = BoolTrue, !["b"] = "x"],
     [NoLabels EXCEPT !["a"] = Undefined, !["b"] = "x"]}
Ladders(kind) ==
    IF kind \in {"histogram", "summary"} THEN {NoLadder, Ladder(CallerLadder)} ELSE {NoLadder}
Configurations(kind) ==
    [labelNames : LabelNameSets, ladder : Ladders(kind), collect : BOOLEAN]
\* metrics.ts `enum MetricType`
MetricType(kind) ==
    CASE kind = "counter" -> "Counter" [] kind = "gauge" -> "Gauge"
      [] kind = "histogram" -> "Histogram" [] OTHER -> "Summary"
WriteOps ==
    {[kind |-> "counter", op |-> "incrementCounter"],
     [kind |-> "gauge", op |-> "setGauge"],
     [kind |-> "gauge", op |-> "startGaugeTimer"],
     [kind |-> "histogram", op |-> "observeHistogram"],
     [kind |-> "summary", op |-> "observeSummary"],
     [kind |-> "summary", op |-> "startSummaryTimer"]}

RegistryStep(reg) ==
    /\ registry.ops < MaxRegistryOps
    /\ registry' = reg
    /\ UNCHANGED <<mode, wrapped, spans, calls, stack, lastGet, tracingConfig, decorated, instrumentation>>

\* Metrics.registerCounter(config), registerGauge, registerHistogram, registerSummary
Register(kind, name, cfg) ==
    RegistryStep(Completed(RegisterMetric(registry, kind, name, cfg),
                           "register", kind, name, NoLabels, cfg.collect, cfg.ladder))

\* metrics.ts createMetric(type, config)
CreateMetric(type, name, cfg) ==
    \E kind \in MetricKinds :
        /\ MetricType(kind) = type
        /\ RegistryStep(Completed(RegisterMetric(registry, kind, name, cfg),
                                  "createMetric", kind, name, NoLabels, cfg.collect,
                                  cfg.ladder))

\* Metrics.getCounter(name), getGauge, getHistogram, getSummary
Get(kind, name) ==
    RegistryStep(Completed(GetMetric(registry, kind, name), "get", kind, name, NoLabels, FALSE,
                           NoLadder))

\* Metrics.incrementCounter(name, labels), setGauge, startGaugeTimer,
\* observeHistogram, observeSummary, startSummaryTimer
WriteCall(w, name, labels) ==
    RegistryStep(Completed(WriteMetric(registry, w.kind, name, labels),
                           w.op, w.kind, name, labels, FALSE, NoLadder))

\* a call of a callable wrapped by a metric decorator, up to its measurement
WrappedCall(name, labels, ladder) ==
    /\ wrapped.made /\ wrapped.kind \in MetricKinds
    /\ ladder \in Ladders(wrapped.kind)
    /\ RegistryStep(Completed(
            WrapperWrite(registry, wrapped.kind, name,
                         WrapperLabels(wrapped.kind, labels), ladder),
            "wrapper", wrapped.kind, name, WrapperLabels(wrapped.kind, labels), FALSE,
            ladder))

\* Metrics.clear()
Clear ==
    RegistryStep(Completed(Reg(ClearRegistry(registry), NoError, NoInstance),
                           "clear", "none", "", NoLabels, FALSE, NoLadder))

NextRegistry ==
    \/ \E k \in MetricKinds : MetricDecorator(k, FALSE)
    \/ \E k \in MetricKinds, n \in MetricNames :
            \E cfg \in Configurations(k) : Register(k, n, cfg)
    \/ \E k \in MetricKinds, n \in MetricNames :
            \E cfg \in Configurations(k) : CreateMetric(MetricType(k), n, cfg)
    \/ \E k \in MetricKinds, n \in MetricNames : Get(k, n)
    \/ \E w \in WriteOps, n \in MetricNames, l \in LabelSets : WriteCall(w, n, l)
    \/ \E n \in MetricNames, l \in LabelSets, ld \in {NoLadder, Ladder(CallerLadder)} :
            WrappedCall(n, l, ld)
    \/ Clear

\* TRACES_MODE and TRACES_LEGACY_ASYNC_WRAPPER are not set
InitRegistry == Init /\ mode = "natural-sync-async"
SpecRegistry == InitRegistry /\ [][NextRegistry]_vars

\* ---------------------------------------------------------------- tracing configuration
\* setEnableSpanLimits(enable)
SetEnableSpanLimits(enable) ==
    /\ tracingConfig' = [tracingConfig EXCEPT !.enableSpanLimits = enable]
    /\ UNCHANGED <<mode, wrapped, spans, calls, stack, lastGet, registry, decorated, instrumentation>>

\* maybeWarnLegacy(diag), with a diag logger or without one
MaybeWarnLegacyCall(diag) ==
    /\ tracingConfig.observations < MaxObservations
    /\ tracingConfig' = [MaybeWarnLegacy(tracingConfig, mode, diag) EXCEPT
                            !.observations = @ + 1, !.diag = diag]
    /\ UNCHANGED <<mode, wrapped, spans, calls, stack, lastGet, registry, decorated, instrumentation>>

NextConfig ==
    \/ \E m \in TracingModes : SetTracingMode(m)
    \/ \E b \in BOOLEAN : SetEnableSpanLimits(b)
    \/ \E d \in BOOLEAN : MaybeWarnLegacyCall(d)

\* TRACES_ENABLE_LIMITS is '1' or not
InitConfig ==
    /\ mode \in TracingModes
    /\ wrapped = NoWrap /\ spans = <<>> /\ calls = [c \in Calls |-> IdleCall]
    /\ stack = <<>> /\ lastGet = NoGet /\ registry = EmptyRegistry /\ decorated = NotDecorated
    /\ instrumentation = NotInitialized
    /\ \E b \in BOOLEAN : tracingConfig = [InitialConfig EXCEPT !.enableSpanLimits = b]
SpecConfig == InitConfig /\ [][NextConfig]_vars

\* ---------------------------------------------------------------- decorations
SpanNameOptions == {Undefined, "", "explicit"}
FnNames == {"", "fn"}
\* the members a decorator is applied to; the options and names matter to
\* the tracing decorator only
Members(targets) ==
    [decorator : {"trace"}, target : targets, name : MemberNames,
     spanName : SpanNameOptions, fnName : FnNames]
    \cup [decorator : MetricKinds, target : targets, name : {"m"},
          spanName : {Undefined}, fnName : {"fn"}]
InitialValues == {"function", "n7"}

Decoration(d) ==
    /\ decorated' = d
    /\ UNCHANGED <<mode, wrapped, spans, calls, stack, lastGet, registry, tracingConfig, instrumentation>>

\* the runtime applies a TC39 decorator to a member, once, when the class is
\* defined: factory(value, ctx)
DecorateA(m) ==
    LET i == [decorator |-> m.decorator, target |-> m.target,
              value |-> RuntimeValue(m.target), name |-> m.name,
              spanName |-> m.spanName, fnName |-> m.fnName]
    IN  /\ ~decorated.A.applied
        /\ Decoration([decorated EXCEPT !.A =
            [NotApplied EXCEPT !.applied = TRUE, !.input = i, !.result = ConventionA(i)]])

\* code calls the factory itself with a function as `value`, as the
\* repository's tests do: dec(function noop() {}, { kind: 'field', name: 'run' })
ApplyA(m) ==
    LET i == [decorator |-> m.decorator, target |-> m.target, value |-> "function",
              name |-> m.name, spanName |-> m.spanName, fnName |-> m.fnName]
    IN  /\ ~decorated.A.applied
        /\ Decoration([decorated EXCEPT !.A =
            [NotApplied EXCEPT !.applied = TRUE, !.input = i, !.result = ConventionA(i)]])

\* factory(target, propertyKey, descriptor)
DecorateB(m) ==
    LET i == [decorator |-> m.decorator, target |-> m.target, value |-> "function",
              name |-> m.name, spanName |-> m.spanName, fnName |-> m.fnName]
    IN  /\ ~decorated.B.applied
        /\ Decoration([decorated EXCEPT !.B =
            [NotApplied EXCEPT !.applied = TRUE, !.input = i, !.result = ConventionB(i)]])

\* an instance is constructed: the initializer of a field or auto-accessor
\* runs on the initial value
Initialize(initialValue, fnName) ==
    /\ decorated.A.result.form \in {"initializer", "init-object"}
    /\ decorated.A.initialValue = "none"
    /\ Decoration([decorated EXCEPT
            !.A.initialValue = initialValue,
            !.A.initialized = Initializer(decorated.A.input, initialValue, fnName)])

NextDecorator ==
    \/ \E m \in Members(ContextKinds) : DecorateA(m)
    \/ \E m \in Members(ContextKinds) : ApplyA(m)
    \/ \E m \in Members(Descriptors) : DecorateB(m)
    \/ \E v \in InitialValues, f \in FnNames : Initialize(v, f)

SpecDecorator == InitRegistry /\ [][NextDecorator]_vars

\* ---------------------------------------------------------------- initInstrumentation, shutDownInstrumentation
ExporterInputs ==
    {NoExporterInput} \cup {Descriptor(k) : k \in ExporterDescriptors}
    \cup {Instance(e) : e \in ExporterInstances}
ProvidedProcessors == {NoProcessors, Processors(<<>>), Processors(<<UserProcessor("P1")>>)}
InitOptions ==
    [exporter : ExporterInputs, url : BOOLEAN, localDebugging : BOOLEAN,
     spanProcessors : ProvidedProcessors, spanLimits : BOOLEAN,
     tracingMode : {Undefined} \cup TracingModes]

\* initInstrumentation(options)
InitInstrumentation(o) ==
    /\ stack = <<>>
    /\ Len(instrumentation.sdks) < MaxInits
    /\ LET id == Len(instrumentation.sdks) + 1
           exporter == ResolveExporter(o)
           processors == ResolveSpanProcessors(exporter, o.spanProcessors)
           limits == o.spanLimits \/ tracingConfig.enableSpanLimits
           m == IF o.tracingMode # Undefined THEN o.tracingMode ELSE mode
           sdk == [NodeSDK(id, exporter, processors, limits) EXCEPT !.started = TRUE]
       IN  /\ instrumentation' =
                [instrumentation EXCEPT
                    !.contextManager = id, !.createdTraceExporter = exporter,
                    !.effectiveSpanProcessors = processors, !.sdk = id,
                    !.sdks = Append(@, sdk), !.api = TRUE, !.options = o]
           /\ mode' = m
           /\ tracingConfig' =
                [MaybeWarnLegacy([tracingConfig EXCEPT !.enableSpanLimits = limits], m, TRUE)
                    EXCEPT !.diag = TRUE]
    /\ UNCHANGED <<wrapped, spans, calls, stack, lastGet, registry, decorated>>

\* what an awaited operation of an exporter or of the SDK does: its
\* promise resolves or rejects, or the operation throws before it returns
\* one; only an exporter of the caller can do the last, the library's
\* exporters and NodeSDK.shutdown are async functions
Behaviours(target) ==
    {"resolves", "rejects"} \cup (IF target.by = "user" THEN {"throws"} ELSE {})
SdkTarget == [class |-> "NodeSDK", noop |-> FALSE, by |-> "library", forceFlush |-> FALSE]

\* a call of shutDownInstrumentation: the statement it is suspended before,
\* the SDK the module held when it began (0: none), the steps it took,
\* whether no other call was under way meanwhile, and whether its promise
\* is settled
Step(op, b) == [op |-> op, outcome |-> b]
ShutdownCall(pc, sdkAtStart, steps) ==
    [pc |-> pc, sdkAtStart |-> sdkAtStart, steps |-> steps, alone |-> TRUE,
     result |-> IF pc = "done" THEN "fulfilled" ELSE "pending"]

\* the outer `catch (error) { diag.error(...) }`
Unexpected(call) ==
    [call EXCEPT !.pc = "done", !.result = "fulfilled", !.steps = Append(@, Step("diag.error", "logged"))]

\* `await createdTraceExporter.shutdown().catch(...)` with the exporter the
\* module holds when the statement runs
ExporterShutdown(ins, call, b) ==
    IF ins.createdTraceExporter = NoExporter \/ b = "throws" THEN Unexpected(call)
    ELSE [call EXCEPT !.pc = "sdkShutdown", !.steps = Append(@, Step("exporter.shutdown", b))]

\* shutDownInstrumentation() up to its first await
Begin(ins, b) ==
    IF ins.sdk = 0 THEN ShutdownCall("done", 0, <<Step("diag.warn", "logged")>>)
    ELSE IF ins.createdTraceExporter = NoExporter
    THEN ShutdownCall("sdkShutdown", ins.sdk, <<Step("diag.warn", "logged")>>)
    ELSE IF ins.createdTraceExporter.forceFlush
    THEN IF b = "throws" THEN Unexpected(ShutdownCall("start", ins.sdk, <<>>))
         ELSE ShutdownCall("exporterShutdown", ins.sdk, <<Step("exporter.forceFlush", b)>>)
    ELSE ExporterShutdown(ins, ShutdownCall("start", ins.sdk, <<>>), b)

\* a call of shutDownInstrumentation; another call that is under way is no
\* longer alone with the module state, nor is this one
ShutDownInstrumentation(b) ==
    /\ stack = <<>>
    /\ Len(instrumentation.shutdowns) < MaxShutdowns
    /\ b \in Behaviours(instrumentation.createdTraceExporter)
    /\ LET pending == \E k \in 1..Len(instrumentation.shutdowns) :
                            instrumentation.shutdowns[k].pc # "done"
           call == [Begin(instrumentation, b) EXCEPT !.alone = ~pending]
       IN  instrumentation' =
              [instrumentation EXCEPT
                  !.shutdowns = Append([k \in 1..Len(@) |->
                                            IF @[k].pc # "done" THEN [@[k] EXCEPT !.alone = FALSE]
                                            ELSE @[k]], call)]
    /\ UNCHANGED <<mode, wrapped, spans, calls, stack, lastGet, registry, tracingConfig, decorated>>

\* the awaited promise of call k has settled and the call runs to its next await:
\*   await createdTraceExporter.shutdown().catch(...)
\*   await sdk.shutdown().catch(...)
\*   trace.disable(); contextManager?.disable?.(); propagation.disable(); context.disable();
\*   createdTraceExporter = undefined; ... sdk = undefined;
Resume(k, b) ==
    /\ stack = <<>>
    /\ k \in 1..Len(instrumentation.shutdowns)
    /\ LET call == instrumentation.shutdowns[k]
           ins == instrumentation
       IN  /\ call.pc # "done"
           /\ CASE call.pc = "exporterShutdown" ->
                    /\ b \in Behaviours(ins.createdTraceExporter)
                    /\ instrumentation' =
                          [ins EXCEPT !.shutdowns[k] = ExporterShutdown(ins, call, b)]
                [] call.pc = "sdkShutdown" ->
                    /\ b \in Behaviours(SdkTarget)
                    /\ instrumentation' =
                          IF ins.sdk = 0
                          THEN [ins EXCEPT !.shutdowns[k] = Unexpected(call)]
                          ELSE [ins EXCEPT
                                  !.sdks[ins.sdk].shutdowns = @ + 1,
                                  !.shutdowns[k] =
                                      [call EXCEPT !.pc = "disable",
                                                   !.steps = Append(@, Step("sdk.shutdown", b))]]
                [] OTHER ->
                    /\ b = "resolves"
                    /\ instrumentation' =
                          [ins EXCEPT
                              !.api = FALSE, !.createdTraceExporter = NoExporter,
                              !.effectiveSpanProcessors = NoProcessors,
                              !.contextManager = 0, !.sdk = 0,
                              !.shutdowns[k] =
                                  [call EXCEPT !.pc = "done", !.result = "fulfilled",
                                               !.steps = Append(@, Step("disable", "done"))]]
    /\ UNCHANGED <<mode, wrapped, spans, calls, stack, lastGet, registry, tracingConfig, decorated>>

AllBehaviours == {"resolves", "rejects", "throws"}

\* initInstrumentation alone, with every form of its options
NextInit == \E o \in InitOptions : InitInstrumentation(o)
SpecInit == InitRegistry /\ [][NextInit]_vars

\* initialization and shutdown, with the exporters that matter to a shutdown
ShutdownOptions ==
    {[NoInitOptions EXCEPT !.exporter = e] :
        e \in {NoExporterInput, Descriptor("console"), Instance(UserExporter),
               Instance(UserExporterNoFlush)}}
NextShutdown ==
    \/ \E o \in ShutdownOptions : InitInstrumentation(o)
    \/ \E b \in AllBehaviours : ShutDownInstrumentation(b)
    \/ \E k \in 1..MaxShutdowns, b \in AllBehaviours : Resume(k, b)
SpecShutdown == InitRegistry /\ [][NextShutdown]_vars

\* ---------------------------------------------------------------- properties
Invoked(c) == calls[c].pc # "idle"
\* the calls of a tracing wrapper that passed the gate (they resolved a span)
Traced(c) == wrapped.made /\ wrapped.kind = "trace" /\ Invoked(c) /\ calls[c].gateIn
Settled(c) == calls[c].pc = "done"
Positions(log, evs) == {i \in 1..Len(log) : log[i] \in evs}
Count(log, evs) == Cardinality(Positions(log, evs))
Precede(log, first, then) ==
    \A i \in Positions(log, first), j \in Positions(log, then) : i < j

\* C1: a span that a traced call created is ended at most once at any time,
\* and exactly once, by that call, once the call has settled, in every start
\* mode and for every outcome of the original callable.
C1_OwnedSpanEndedExactlyOnce ==
    \A c \in Calls :
        Traced(c) /\ calls[c].createdSpan =>
            /\ spans[calls[c].span].ended <= 1
            /\ Settled(c) =>
                /\ spans[calls[c].span].ended = 1
                /\ spans[calls[c].span].endedBy = <<c>>

\* a call that created its span has settled after the original's promise rejected
C1_Witness ==
    \E c \in Calls :
        /\ Traced(c) /\ calls[c].createdSpan /\ Settled(c)
        /\ calls[c].out.form = "promise" /\ ~calls[c].chain.ok
        /\ spans[calls[c].span].ended = 1

\* C2: a traced call in start mode 'reuse' made while a span is active works
\* on that span with createdSpan = false, starts no span and never ends the
\* span, whatever the original callable does.
C2_ReuseNeverEndsActiveSpan ==
    \A c \in Calls :
        Traced(c) /\ wrapped.startMode = "reuse" /\ calls[c].active # NoSpan =>
            /\ calls[c].span = calls[c].active
            /\ ~calls[c].createdSpan
            /\ \A s \in 1..Len(spans) :
                /\ spans[s].by # c
                /\ \A i \in 1..Len(spans[s].endedBy) : spans[s].endedBy[i] # c

\* a reusing call has settled after the original threw, the span still open
C2_Witness ==
    \E c \in Calls :
        /\ Traced(c) /\ wrapped.startMode = "reuse" /\ calls[c].active # NoSpan
        /\ Settled(c) /\ calls[c].out.form = "throw"
        /\ spans[calls[c].span].status = StatusError
        /\ spans[calls[c].span].ended = 0

\* C3: within one invocation of a wrapped callable, the settlement side
\* effects (span status, recorded exception, metric label `error`) come before
\* the lifecycle release (span end, timer stop, counter write), which comes
\* before the caller can observe the wrapper's outcome (its return for an
\* immediate outcome, the settlement of the promise it returned otherwise);
\* so at that point an owned span is ended and the metric is written.
SettlementEvents == {"status", "exception", "label"}
ReleaseEvents == {"end", "stop", "inc"}
ObservedEvents == {"return", "settle"}
C3_SettleThenReleaseThenResult ==
    \A c \in Calls :
        Invoked(c) /\ wrapped.made /\ (wrapped.kind = "trace" => calls[c].gateIn) =>
            /\ Precede(calls[c].log, SettlementEvents, ReleaseEvents)
            /\ Precede(calls[c].log, ReleaseEvents, ObservedEvents)
            /\ Precede(calls[c].log, SettlementEvents, ObservedEvents)
            /\ Count(calls[c].log, ObservedEvents) > 0 =>
                /\ wrapped.kind = "trace" /\ calls[c].createdSpan =>
                        Count(calls[c].log, {"end"}) = 1
                /\ wrapped.kind = "counter" => Count(calls[c].log, {"inc"}) = 1
                /\ wrapped.kind = "histogram" => Count(calls[c].log, {"stop"}) = 1

\* a histogram-wrapped call has settled after the original's promise rejected:
\* label assigned, timer stopped, then the rejection reached the caller
C3_Witness ==
    \E c \in Calls :
        /\ wrapped.made /\ wrapped.kind = "histogram" /\ Settled(c)
        /\ calls[c].out.form = "promise" /\ calls[c].res.state = "rejected"
        /\ calls[c].labelErr = "RangeError"
        /\ Count(calls[c].log, {"stop"}) = 1

\* C4: for every wrapper kind, each settlement action of one invocation
\* (status set, error-label assignment, timer stop, counter increment, span
\* end) is attempted at most once, also when a settlement action throws in
\* the success branch (so no second attempt exists that could raise).
C4_SettlementAtMostOnce ==
    \A c \in Calls :
        Invoked(c) =>
            /\ Count(calls[c].log, {"status", "status!"}) <= 1
            /\ Count(calls[c].log, {"label"}) <= 1
            /\ Count(calls[c].log, {"stop", "stop!"}) <= 1
            /\ Count(calls[c].log, {"inc", "inc!"}) <= 1
            /\ Count(calls[c].log, {"end", "end!"}) <= 1

\* the step in which the original callable of call c returns or throws and
\* the wrapper hands its outcome to the caller; the mode cannot change
\* between the call and this step, so `mode` is the mode at the call
Completes(c, pc) == calls[c].pc = pc /\ calls'[c].pc # pc
Legacy == mode = "legacy-always-promise"
Natural == mode = "natural-sync-async"

\* C5: a traced call whose original returns an immediate value x returns x
\* itself in natural mode and a promise resolved with x in legacy mode; an
\* original that returns a deferred value yields a deferred value in both.
C5_ImmediateStaysImmediateUnlessLegacy ==
    [][\A c \in Calls :
        wrapped.made /\ wrapped.kind = "trace" /\ Completes(c, "orig") =>
            LET out == calls'[c].out
                res == calls'[c].res
            IN  /\ out.form = "value" /\ Natural =>
                    res = [form |-> "value", state |-> "returned", payload |-> out.payload]
                /\ out.form = "value" /\ Legacy =>
                    res = [form |-> "promise", state |-> "fulfilled", payload |-> out.payload]
                /\ out.form \in DeferredForms => res.form = "promise"
      ]_vars

\* C6: whether a call of a tracing wrapper coerces an immediate result to a
\* promise is decided by the mode in effect when the call is made, also for
\* a callable that was wrapped before the mode was set.
C6_CoercionFollowsModeAtCall ==
    [][\A c \in Calls :
        /\ wrapped.made /\ wrapped.kind = "trace"
        /\ Completes(c, "orig") \/ Completes(c, "origU")
        /\ calls'[c].out.form = "value"
        => (calls'[c].res.form = "promise" <=> Legacy)
      ]_vars

\* C7: when the original throws synchronously in a traced call, on return to
\* the caller the span has status ERROR with the error's message, the
\* exception is recorded and an owned span is ended; the error is raised in
\* natural mode and returned as a rejected promise in legacy mode.
C7_SyncThrowSettlesSpanThenRaisesOrRejects ==
    [][\A c \in Calls :
        /\ wrapped.made /\ wrapped.kind = "trace"
        /\ Completes(c, "orig")
        /\ calls'[c].out.form = "throw"
        => LET e == calls'[c].out.payload
               sp == spans'[calls'[c].span]
               res == calls'[c].res
           IN  /\ sp.status = StatusError /\ sp.msg = Message(e)
               /\ sp.exc # <<>> /\ sp.exc[Len(sp.exc)] = e
               /\ calls'[c].createdSpan => sp.ended = 1
               /\ res.payload = e
               /\ Natural => res.form = "throw"
               /\ Legacy => res.form = "promise" /\ res.state = "rejected"
      ]_vars

\* C8: when the gate is false the legacy coercion still applies: under
\* legacy mode an immediate result comes back as a promise resolved with it
\* and a synchronous throw as a rejected promise; under natural mode both
\* pass through unchanged. (Stated for a wrapper built under the mode of the
\* call, so that the mode at wrapping plays no part.)
C8_UntracedLegacyCoercion ==
    [][\A c \in Calls :
        /\ wrapped.made /\ wrapped.kind = "trace"
        /\ wrapped.coerce = Legacy
        /\ Completes(c, "origU")
        => LET out == calls'[c].out
               res == calls'[c].res
           IN  /\ out.form = "value" =>
                    /\ res.payload = out.payload
                    /\ Legacy => res.form = "promise" /\ res.state = "fulfilled"
                    /\ Natural => res.form = "value"
               /\ out.form = "throw" =>
                    /\ res.payload = out.payload
                    /\ Legacy => res.form = "promise" /\ res.state = "rejected"
                    /\ Natural => res.form = "throw"
      ]_vars

\* the gate of a call of a tracing wrapper is computed once, before the span
\* is resolved; a call whose gate is false starts, reuses, modifies and ends
\* no span, does not evaluate dynamicAttributes, and invokes the original
\* once with the caller's receiver and arguments
GateOnceAndUntracedTouchesNothing(c) ==
    /\ Count(calls[c].log, {"gate"}) = 1
    /\ Precede(calls[c].log, {"gate"}, {"dyn", "getSpan", "orig"})
    /\ ~calls[c].gateIn =>
        /\ Count(calls[c].log, {"dyn", "getSpan", "status", "exception", "end"}) = 0
        /\ calls[c].span = NoSpan
        /\ \A s \in 1..Len(spans) :
            /\ spans[s].by # c
            /\ \A i \in 1..Len(spans[s].endedBy) : spans[s].endedBy[i] # c
        /\ calls[c].origArgs = <<calls[c].args>>
\* what the caller has of a deferred or thrown outcome is the original's
PassedThrough(c) ==
    /\ calls[c].out.form = "throw" =>
        calls[c].res = [form |-> "throw", state |-> "thrown", payload |-> calls[c].out.payload]
    /\ calls[c].out.form \in DeferredForms =>
        /\ calls[c].res.form = "promise"
        /\ Settled(c) =>
            /\ calls[c].res.state = (IF calls[c].chain.ok THEN "fulfilled" ELSE "rejected")
            /\ calls[c].res.payload = calls[c].chain.payload
UntracedReturned(c) ==
    wrapped.made /\ wrapped.kind = "trace" /\ ~calls[c].gateIn
        /\ calls[c].pc \in {"awaitU", "done"}

C10_GetSpanCreatesUnlessReuseOfActive ==
    [][lastGet' # lastGet /\ lastGet'.mode \in StartModes =>
        LET g == lastGet'
        IN  /\ ~g.createdSpan <=> (g.mode = "reuse" /\ g.active # NoSpan)
            /\ ~g.createdSpan => g.span = g.active /\ spans' = spans
            /\ g.createdSpan =>
                /\ Len(spans') = Len(spans) + 1
                /\ SubSeq(spans', 1, Len(spans)) = spans
                /\ g.span = Len(spans')
                /\ g.span # g.active
      ]_vars

\* getSpan has been called in mode 'newTraceWithLink' while a span was active
\* and has started a new span linked to it (createdSpan = true)
C10_Witness ==
    /\ lastGet.mode = "newTraceWithLink" /\ lastGet.active # NoSpan
    /\ lastGet.createdSpan /\ lastGet.span = Len(spans)
    /\ spans[lastGet.span].links = {lastGet.active}

\* a step in which Traces.getSpan was called and started a span
GetSpanStarted == lastGet' # lastGet /\ lastGet'.mode \in StartModes /\ lastGet'.createdSpan
TraceIds(sp) == {sp[i].trace : i \in 1..Len(sp)}

C13_SamplingKeepCallerValueWins ==
    [][lastGet' # lastGet /\ lastGet'.createdSpan =>
        LET o == lastGet'.options
            supplied == o.given /\ o.hasAttributes /\ o.attributes[SamplingKey] # Absent
            kept == spans'[lastGet'.span].attrs[SamplingKey]
        IN  /\ kept # Absent
            /\ supplied => kept = o.attributes[SamplingKey]
            /\ ~supplied => kept = "false"
      ]_vars

\* C14: the attributes a traced call passes to its span are, per call, the
\* static attributes, overridden by what dynamicAttributes(args) returns,
\* overridden by 'function.name' = the original callable's name when it has
\* one; for an unnamed callable the wrapper sets no 'function.name'.
C14_AttributeMergeOrder ==
    \A c \in Calls :
        Traced(c) =>
            LET attrs == calls[c].spanOptions.attributes
                dyn == wrapped.dynamicAttributes # "none"
            IN  /\ attrs["k"] = (IF dyn THEN calls[c].args ELSE wrapped.attributes["k"])
                /\ attrs[FunctionNameKey] =
                        (IF wrapped.fnName # "" THEN wrapped.fnName
                         ELSE IF dyn THEN calls[c].args
                         ELSE wrapped.attributes[FunctionNameKey])
                /\ wrapped.fnName = "" /\ ~dyn /\ wrapped.attributes[FunctionNameKey] = Absent
                        => attrs[FunctionNameKey] = Absent
                /\ attrs[SamplingKey] = wrapped.attributes[SamplingKey]
                /\ calls[c].createdSpan =>
                    /\ spans[calls[c].span].attrs["k"] = attrs["k"]
                    /\ spans[calls[c].span].attrs[FunctionNameKey] = attrs[FunctionNameKey]

\* a named callable wrapped with static 'k' and 'function.name' and with
\* dynamicAttributes was called with "b": its span has k = "b" and
\* function.name = the callable's name
C14_Witness ==
    \E c \in Calls :
        /\ Traced(c) /\ calls[c].createdSpan /\ calls[c].args = "b"
        /\ wrapped.attributes["k"] = "static"
        /\ wrapped.attributes[FunctionNameKey] = "static"
        /\ wrapped.dynamicAttributes = "byArgs" /\ wrapped.fnName = "fn"
        /\ spans[calls[c].span].attrs["k"] = "b"
        /\ spans[calls[c].span].attrs[FunctionNameKey] = "fn"

\* C15: a traced call that reuses the active span (start mode 'reuse', a
\* span active) attaches its static and dynamic attributes to that span.
C15_ReusedSpanGetsCallAttributes ==
    \A c \in Calls :
        Traced(c) /\ wrapped.startMode = "reuse" /\ calls[c].active # NoSpan =>
            \A k \in Keys :
                calls[c].spanOptions.attributes[k] # Absent =>
                    spans[calls[c].span].attrs[k] = calls[c].spanOptions.attributes[k]

\* the original callable of call c failed with error e: it threw e, or the
\* deferred value it returned was rejected with e
OrigFailed(c, e) ==
    \/ calls[c].out.form = "throw" /\ calls[c].out.payload = e
    \/ /\ calls[c].out.form \in DeferredForms
       /\ calls[c].pc \in {"chain", "done"}
       /\ ~calls[c].settledWith.ok /\ calls[c].settledWith.payload = e
\* the original callable of call c succeeded with value v
OrigSucceeded(c, v) ==
    \/ calls[c].out.form = "value" /\ calls[c].out.payload = v
    \/ /\ calls[c].out.form \in DeferredForms
       /\ calls[c].pc \in {"chain", "done"}
       /\ calls[c].settledWith.ok /\ calls[c].settledWith.payload = v

\* C16: under every wrapper kind the caller receives the very error the
\* original callable threw or rejected with: raised when the original threw
\* (or a rejection under legacy coercion), the rejection of the returned
\* promise when the original's deferred value was rejected; and the original
\* is invoked exactly once per call of the wrapper.
C16_OriginalErrorReachesCaller ==
    \A c \in Calls :
        /\ Invoked(c) => Len(calls[c].origArgs) = 1
        /\ \A e \in Errors :
            Settled(c) /\ OrigFailed(c, e) =>
                /\ calls[c].res.payload = e
                /\ calls[c].out.form = "throw" =>
                    \/ calls[c].res.form = "throw"
                    \/ wrapped.coerce /\ calls[c].res.form = "promise"
                            /\ calls[c].res.state = "rejected"
                /\ calls[c].out.form \in DeferredForms =>
                    calls[c].res.form = "promise" /\ calls[c].res.state = "rejected"

\* C17: when the original callable succeeds, the caller gets its value (or
\* a promise resolved with it) even if an instrumentation step (a span
\* operation, a metric write) throws; no instrumentation failure surfaces.
C17_InstrumentationFailureNeverSurfaces ==
    \A c \in Calls :
        \A v \in Values :
            Settled(c) /\ OrigSucceeded(c, v) =>
                /\ calls[c].res.payload = v
                /\ \/ calls[c].res.form = "value"
                   \/ calls[c].res.form = "promise" /\ calls[c].res.state = "fulfilled"

\* the wrapper code of call c is engaged: a metric wrapper always, a tracing
\* wrapper when the call passed the gate
Engaged(c) == wrapped.made /\ Invoked(c) /\ (wrapped.kind = "trace" => calls[c].gateIn)
\* the original callable of call c returned a deferred value that has not
\* settled yet
Unsettled(c) == calls[c].out.form \in DeferredForms /\ calls[c].pc \in {"await", "awaitU"}
\* the error label of the outcome of call c
OutcomeLabel(c) ==
    IF calls[c].out.form = "throw" THEN ErrorLabel(calls[c].out.payload)
    ELSE IF calls[c].out.form \in DeferredForms /\ ~calls[c].settledWith.ok
    THEN ErrorLabel(calls[c].settledWith.payload)
    ELSE "none"
WritesOf(c, op) == {i \in 1..Len(calls[c].writes) : calls[c].writes[i].op = op}

\* C18: a counter-wrapped call increments the counter by 1 exactly once per
\* settled call, never while the deferred result of the original is still
\* unsettled, with label error = "none" on success and otherwise the name of
\* the thrown or rejected error, "unknown_error" when it has none.
C18_CounterOncePerSettledCall ==
    \A c \in Calls :
        wrapped.made /\ wrapped.kind = "counter" /\ Invoked(c) =>
            /\ Len(calls[c].writes) <= 1
            /\ Unsettled(c) => calls[c].writes = <<>>
            /\ Settled(c) =>
                /\ Len(calls[c].writes) = 1
                /\ calls[c].writes[1].op = "inc"
                /\ calls[c].writes[1].value = 1
                /\ calls[c].writes[1].error = OutcomeLabel(c)

\* C19: every wrapper treats the result of the original as deferred exactly
\* when it has a `then` (native promise or not): an immediate result is never
\* awaited, and for a deferred one no status, error label, span end or metric
\* write happens before it settles, and what is recorded once the call has
\* settled is the actual outcome (the error label of the writes; the status
\* of the span the call created, when no other call reused it).
C19_DeferredIffThenable ==
    \A c \in Calls :
        Engaged(c) =>
            /\ calls[c].out.form \in {"value", "throw"} =>
                    calls[c].pc \notin {"await", "awaitU", "chain"}
            /\ Unsettled(c) =>
                    Positions(calls[c].log,
                              SettlementEvents \cup ReleaseEvents \cup {"set"}) = {}
            /\ Settled(c) /\ calls[c].out.form \in DeferredForms =>
                /\ wrapped.kind \in {"counter", "histogram"} =>
                    \A i \in 1..Len(calls[c].writes) :
                        calls[c].writes[i].error = OutcomeLabel(c)
                /\ wrapped.kind = "trace" /\ calls[c].createdSpan
                        /\ (\A d \in Calls \ {c} : calls[d].span # calls[c].span) =>
                    spans[calls[c].span].status =
                        IF calls[c].settledWith.ok THEN StatusOk ELSE StatusError

\* C20: gauge and summary wrappers. timed: a timer is started at entry and
\* stopped exactly once, at settlement, and the returned value is never
\* written. Not timed: no timer, and exactly one value write when the call
\* succeeds with a number, none otherwise and none before settlement.
C20_GaugeSummaryTimerOrValue ==
    \A c \in Calls :
        wrapped.made /\ wrapped.kind \in {"gauge", "summary"} /\ Invoked(c) =>
            LET stops == Cardinality(WritesOf(c, "observeSeconds"))
                sets == WritesOf(c, "set")
            IN  /\ calls[c].timer = wrapped.timed
                /\ Unsettled(c) \/ calls[c].pc = "orig" => calls[c].writes = <<>>
                /\ wrapped.timed =>
                    /\ sets = {}
                    /\ stops <= 1
                    /\ Settled(c) => stops = 1
                /\ ~wrapped.timed =>
                    /\ stops = 0
                    /\ Cardinality(sets) <= 1
                    /\ Settled(c) =>
                        /\ sets # {} <=> \E v \in Numbers : OrigSucceeded(c, v)
                        /\ \A i \in sets : OrigSucceeded(c, calls[c].writes[i].value)

\* ---------------------------------------------------------------- the Metrics registry
Last == registry.last
Programmatic == {w.op : w \in WriteOps}
\* the instance the last operation used
LastInstance == registry.instances[Last.kind][Last.name]
\* what a measurement with the labels `given` carries on an instance that
\* declares the label names `declared`
ExpectedLabels(given, declared) ==
    [k \in LabelKeys |->
        IF k \notin declared \/ given[k] \in {Absent, Undefined} THEN Absent
        ELSE IF given[k] = BoolTrue THEN "true"
        ELSE given[k]]

\* C21: every measurement that reaches a metric instance, from the
\* programmatic API or from a decorator wrapper, carries the caller's labels
\* without the keys whose value is undefined, with booleans as "true"/"false",
\* and without the keys the instance does not declare; an undeclared key
\* never raises an error.
C21_LabelsConvertedAndFiltered ==
    Last.op \in Programmatic \cup {"wrapper"} =>
        /\ Last.thrown.type # "label not declared"
        /\ Last.wrote =>
            Last.written = ExpectedLabels(Last.given, LastInstance.labelNames)

Registrations == {"register", "createMetric"}
\* the step is an operation of the registry
RegistryOp == registry'.ops = registry.ops + 1
Materialized(k, n) == registry.instances[k][n].present

\* C22: a registration without a collector function creates no instance; a
\* get or a write of a registered name that has no instance yet creates it
\* (when prom-client's register has no metric of that name); and, as long as
\* Metrics.clear() has not been called, an instance that exists is never
\* replaced: every write of its name is made on it.
C22_OneInstancePerName ==
    [][RegistryOp =>
        /\ Last'.op \in Registrations /\ ~Last'.collect =>
                registry'.instances = registry.instances
        /\ \A k \in MetricKinds, n \in MetricNames :
            /\ /\ Last'.op \in Programmatic \cup {"get"}
               /\ Last'.kind = k /\ Last'.name = n
               /\ registry.configs[k][n].present /\ ~Materialized(k, n)
               /\ n \notin registry.register
               => /\ registry'.instances[k][n].present
                  /\ Last'.inst = registry'.instances[k][n].id
                  /\ registry'.instances[k][n].id \notin
                        {registry.instances[j][m].id : j \in MetricKinds, m \in MetricNames}
            /\ Materialized(k, n) /\ ~registry'.cleared =>
                /\ registry'.instances[k][n] = registry.instances[k][n]
                /\ Last'.op \in Programmatic \cup {"wrapper"}
                        /\ Last'.kind = k /\ Last'.name = n /\ Last'.wrote
                    => Last'.inst = registry.instances[k][n].id
    ]_vars
\* after a lazy registration, a third operation wrote on the only instance
\* ever constructed
C22_Witness ==
    /\ registry.ops = 3 /\ ~registry.cleared /\ registry.nextId = 2
    /\ Last.op \in Programmatic /\ Last.wrote /\ Last.inst = 1
    /\ registry.configs[Last.kind][Last.name].present

\* C23: when the registration of a name declares no label names, the first
\* write materializes an instance that declares exactly the keys of that
\* write's labels that have a value; a later write never changes the label
\* names of an instance, and its keys that the instance does not declare are
\* dropped without an error.
C23_LabelNamesInferredOnce ==
    [][RegistryOp /\ Last'.op \in Programmatic \cup {"wrapper"} =>
        LET k == Last'.kind
            n == Last'.name
        IN  /\ /\ registry.configs[k][n].present
               /\ registry.configs[k][n].labelNames = {}
               /\ ~Materialized(k, n) /\ n \notin registry.register
               => /\ registry'.instances[k][n].present
                  /\ registry'.instances[k][n].labelNames =
                        {l \in LabelKeys : Last'.given[l] \notin {Absent, Undefined}}
                  /\ Last'.wrote
            /\ Materialized(k, n) /\ ~registry'.cleared =>
                /\ registry'.instances[k][n].labelNames = registry.instances[k][n].labelNames
                /\ Last'.thrown = NoError /\ Last'.wrote
                /\ KeysOf(Last'.written) \subseteq registry.instances[k][n].labelNames
    ]_vars

\* the maps of the registry and prom-client's register
Contents(reg) == <<reg.configs, reg.instances, reg.register, reg.nextId>>
\* the name has a registration of the kind: a stored configuration, or an
\* instance (a registration with a collector function stores only that)
Registered(k, n) == registry.configs[k][n].present \/ Materialized(k, n)

\* C24: each of the six programmatic writes, on a name that has no
\* registration of its kind, throws an error that names the metric and
\* leaves the registry as it was: no registration and no instance appears.
C24_UnknownNameThrowsAndChangesNothing ==
    [][RegistryOp /\ Last'.op \in Programmatic /\ ~Registered(Last'.kind, Last'.name) =>
        /\ Last'.thrown = NotFound(Last'.name)
        /\ ~Last'.wrote
        /\ Contents(registry') = Contents(registry)
    ]_vars
\* a write was refused with the not-found error while another kind holds
\* a registration of the same name
C24_Witness ==
    /\ Last.op \in Programmatic
    /\ Last.thrown = NotFound(Last.name)
    /\ \E k \in MetricKinds \ {Last.kind} : Registered(k, Last.name)

\* C25: attaching a metric decorator changes nothing in the registry. A call
\* of the wrapped callable whose metric name has no registration registers it
\* with the keys of the wrapper's labels (`error` among them exactly for
\* counter and histogram) and materializes it; a call whose name is
\* registered leaves that registration as it is and uses it.
C25_WrapperRegistersOnFirstCall ==
    [][/\ wrapped' # wrapped => registry' = registry
       /\ RegistryOp /\ Last'.op = "wrapper" =>
            LET k == Last'.kind
                n == Last'.name
            IN  /\ ~Registered(k, n) /\ n \notin registry.register =>
                    /\ registry'.configs[k][n].present
                    /\ registry'.configs[k][n].labelNames = KeysOf(Last'.given)
                    /\ "error" \in KeysOf(Last'.given) <=> k \in {"counter", "histogram"}
                    /\ registry'.instances[k][n].present
                    /\ registry'.instances[k][n].labelNames = KeysOf(Last'.given)
                    /\ Last'.inst = registry'.instances[k][n].id
                /\ Registered(k, n) =>
                    /\ registry'.configs[k][n] = registry.configs[k][n]
                    /\ Materialized(k, n) =>
                            registry'.instances[k][n] = registry.instances[k][n]
                    /\ ~Materialized(k, n) /\ registry'.instances[k][n].present =>
                            registry'.instances[k][n].labelNames =
                                registry.configs[k][n].labelNames
    ]_vars
\* the first operation of the run was a call of a wrapper, which registered
\* and materialized its metric and made its measurement
C25_Witness ==
    /\ registry.ops = 1 /\ Last.op = "wrapper" /\ Last.wrote
    /\ wrapped.made /\ wrapped.kind = Last.kind
    /\ registry.configs[Last.kind][Last.name].labelNames = KeysOf(Last.given)
    /\ registry.instances[Last.kind][Last.name].id = Last.inst

\* the ladder a registration of kind k ends up with when the caller gave
\* `ladder`
ExpectedLadder(k, ladder) ==
    IF ladder.given THEN ladder
    ELSE IF k = "histogram"
    THEN [given |-> TRUE,
          values |-> <<5, 10, 25, 50, 100, 250, 500, 1000, 2500, 5000, 10000>>]
    ELSE IF k = "summary" THEN [given |-> TRUE, values |-> <<50, 90, 95, 99>>]
    ELSE [given |-> FALSE, values |-> <<>>]

\* C26: a histogram or summary registered through register*, createMetric or
\* a wrapper's first call has the default buckets or percentiles exactly when
\* the caller gave none, and the caller's ladder otherwise; a counter or
\* gauge registration gets no ladder.
C26_DefaultLadderIffNoneGiven ==
    [][RegistryOp /\ Last'.thrown = NoError =>
        LET k == Last'.kind
            n == Last'.name
        IN  /\ Last'.op \in Registrations /\ ~Last'.collect =>
                registry'.configs[k][n].ladder = ExpectedLadder(k, Last'.ladder)
            /\ Last'.op \in Registrations /\ Last'.collect =>
                registry'.instances[k][n].ladder = ExpectedLadder(k, Last'.ladder)
            /\ Last'.op = "wrapper" /\ ~Registered(k, n) =>
                /\ registry'.configs[k][n].ladder = ExpectedLadder(k, Last'.ladder)
                /\ registry'.instances[k][n].ladder = ExpectedLadder(k, Last'.ladder)
    ]_vars
\* createMetric(MetricType.Histogram, config) without buckets stored the
\* default buckets
C26_Witness ==
    /\ Last.op = "createMetric" /\ Last.kind = "histogram" /\ ~Last.ladder.given
    /\ registry.configs["histogram"][Last.name].present
    /\ Len(registry.configs["histogram"][Last.name].ladder.values) = 11

\* ---------------------------------------------------------------- tracing configuration
Warned(cfg, w) == \E i \in 1..Len(cfg.warnings) : cfg.warnings[i] = w
\* the step is a call of maybeWarnLegacy with a diag logger
Observation == tracingConfig'.observations = tracingConfig.observations + 1 /\ tracingConfig'.diag

\* C27: over any sequence of setTracingMode, setEnableSpanLimits and
\* maybeWarnLegacy(diag) calls, the diag loggers receive the legacy-mode
\* warning at most once and the span-limits warning at most once; each is
\* emitted by the first maybeWarnLegacy(diag) call at which its condition
\* holds (legacy mode active, limits disabled), and by no other step.
C27_EachWarningOnceOnFirstObservation ==
    [][/\ Count(tracingConfig'.warnings, {LegacyWarning}) <= 1
       /\ Count(tracingConfig'.warnings, {LimitsWarning}) <= 1
       /\ Observation /\ mode = "legacy-always-promise"
                /\ ~Warned(tracingConfig, LegacyWarning)
            => Warned(tracingConfig', LegacyWarning)
       /\ Observation /\ ~tracingConfig.enableSpanLimits
                /\ ~Warned(tracingConfig, LimitsWarning)
            => Warned(tracingConfig', LimitsWarning)
       /\ Warned(tracingConfig', LegacyWarning) /\ ~Warned(tracingConfig, LegacyWarning)
            => Observation /\ mode = "legacy-always-promise"
       /\ Warned(tracingConfig', LimitsWarning) /\ ~Warned(tracingConfig, LimitsWarning)
            => Observation /\ ~tracingConfig.enableSpanLimits
       /\ ~Observation => tracingConfig'.warnings = tracingConfig.warnings
    ]_vars
\* four calls of maybeWarnLegacy, the last with a diag, in legacy mode with
\* limits disabled: each warning was received once
C27_Witness ==
    /\ tracingConfig.observations = 4 /\ tracingConfig.diag
    /\ mode = "legacy-always-promise" /\ ~tracingConfig.enableSpanLimits
    /\ Len(tracingConfig.warnings) = 2
    /\ Warned(tracingConfig, LegacyWarning) /\ Warned(tracingConfig, LimitsWarning)

\* ---------------------------------------------------------------- decorator conventions
\* the member was decorated by Traces.trace through the convention and a
\* wrapped callable came out
TracedBy(side) ==
    /\ side.applied
    /\ side.input.decorator = "trace"
    /\ side.result.form \in {"callable", "descriptor"}
\* what a call of the callable does: the span name it uses, the function
\* it runs and the wrapper around it (attributes, gating, status, exception,
\* end and result are the closure's, see ClosureWith)
Behaviour(callable) ==
    [spanName |-> callable.spanName, original |-> callable.original,
     closure |-> callable.closure]
SameMember(i, j) ==
    /\ i.decorator = j.decorator
    /\ i.name = j.name
    /\ i.spanName = j.spanName
    /\ i.fnName = j.fnName

\* C28: for the same options and the same original method under a string
\* member name, the callable Convention A produces for a method, getter or
\* setter and the one Convention B produces behave identically: same span
\* name, same original, same wrapper.
C28_ConventionsProduceSameCallable ==
    ( /\ TracedBy(decorated.A)
      /\ TracedBy(decorated.B)
      /\ decorated.A.input.target \in {"method", "getter", "setter"}
      /\ SameMember(decorated.A.input, decorated.B.input)
      /\ IsString(decorated.A.input.name) )
    => Behaviour(decorated.A.result.callable) = Behaviour(decorated.B.result.callable)
C28_Witness ==
    /\ TracedBy(decorated.A)
    /\ TracedBy(decorated.B)
    /\ decorated.A.input.target = "getter"
    /\ decorated.B.input.target = "getset"
    /\ SameMember(decorated.A.input, decorated.B.input)
    /\ decorated.A.input.name = "m"
    /\ decorated.A.input.spanName = Undefined
    /\ decorated.A.result.callable.spanName = "m"
    /\ decorated.B.result.callable.closure # NoWrap

\* the first available of: the spanName option, the member name, the
\* callable's own name, "anonymous"
FirstAvailable(i) ==
    IF i.spanName # Undefined THEN i.spanName
    ELSE IF IsString(i.name) /\ i.name # "" THEN i.name
    ELSE IF i.fnName # "" THEN i.fnName
    ELSE "anonymous"
\* C29: the span name of a traced callable is the first available of the
\* explicit spanName option, the member name, the callable's own name and
\* "anonymous"; a named callable under a symbol member name gets its own name.
C29_SpanNameFallbackChain ==
    \A c \in {"A", "B"} :
        TracedBy(decorated[c])
        => decorated[c].result.callable.spanName = FirstAvailable(decorated[c].input)

\* C30: applied to a field, a Convention A decorator returns an initializer
\* function, applied to an auto-accessor an object with an init function, and
\* applied to a method, getter or setter the wrapped callable; the
\* initializer returns a wrapped callable for a function and any other
\* initial value unchanged.
C30_InitializerForFieldsAndAccessors ==
    LET a == decorated.A
    IN  a.applied =>
        /\ a.input.target = "field" => a.result.form = "initializer"
        /\ a.input.target = "auto-accessor" => a.result.form = "init-object"
        /\ a.input.target \in {"method", "getter", "setter"} =>
            /\ a.result.form = "callable"
            /\ a.result.callable.closure # NoWrap
        /\ a.initialValue = "function" =>
            /\ a.initialized.form = "callable"
            /\ a.initialized.callable.closure # NoWrap
        /\ a.initialValue \notin {"function", "none"} =>
            /\ a.initialized.form = "value"
            /\ a.initialized.callable = NoCallable

\* ---------------------------------------------------------------- start mode options
\* C31: a callable wrapped with createNewSpan: true is the callable wrapped
\* with startMode: 'createChild', whatever start mode is given besides, and
\* with neither option the start mode is 'reuse'.
C31_CreateNewSpanIsCreateChild ==
    [][ /\ \A sm \in OptStartModes :
              (WithTracing(TRUE, sm) \/ TraceDecorator(TRUE, sm))
              => /\ wrapped'.startMode = "createChild"
                 /\ wrapped' = Closure(FALSE, "createChild")
        /\ (WithTracing(FALSE, Undefined) \/ TraceDecorator(FALSE, Undefined))
              => wrapped'.startMode = "reuse" ]_vars

\* ---------------------------------------------------------------- initInstrumentation
Initialized == instrumentation.sdk # 0
CurrentSdk == instrumentation.sdks[instrumentation.sdk]
\* the exporter the options ask for: options.exporter before the legacy
\* url / localDebugging, the no-op exporter if there is none
NamedClass(o) ==
    IF o.exporter.given = "instance" THEN o.exporter.instance.class
    ELSE IF o.exporter.given = "descriptor" /\ o.exporter.kind = "console" THEN "ConsoleSpanExporter"
    ELSE IF o.exporter.given = "descriptor" /\ o.exporter.kind = "otlp" THEN "OTLPTraceExporter"
    ELSE IF o.exporter.given = "descriptor" /\ o.exporter.kind = "noop" THEN "Noop"
    ELSE IF o.localDebugging THEN "ConsoleSpanExporter"
    ELSE IF o.url THEN "OTLPTraceExporter"
    ELSE "Noop"
LibraryProcessors(list) == {i \in 1..Len(list) : list[i].by = "library"}

Ops(call) == [i \in 1..Len(call.steps) |-> call.steps[i].op]
ShutdownSteps == <<"exporter.shutdown", "sdk.shutdown", "disable">>
\* a call that has returned and had the module state to itself
CompletedAlone(call) == call.pc = "done" /\ call.alone

\* C36: shutDownInstrumentation never rejects; whatever forceFlush, the
\* exporter's shutdown and the SDK's shutdown do, the steps run in the order
\* forceFlush, exporter shutdown, SDK shutdown, disabling of the global APIs;
\* afterwards the module no longer holds the SDK, and a call that finds no
\* SDK takes no shutdown step.
C36_ShutdownSwallowsAndCompletes ==
    \A k \in 1..Len(instrumentation.shutdowns) :
        LET call == instrumentation.shutdowns[k]
        IN  /\ call.result \in {"pending", "fulfilled"}
            /\ (CompletedAlone(call) /\ call.sdkAtStart # 0) =>
                  /\ Ops(call) \in {ShutdownSteps, <<"exporter.forceFlush">> \o ShutdownSteps}
                  /\ instrumentation.sdk # call.sdkAtStart
            /\ (CompletedAlone(call) /\ call.sdkAtStart = 0) =>
                  Ops(call) = <<"diag.warn">>

\* ---------------------------------------------------------------- the active span
\* the original callable of the traced call c is running or suspended
OriginalRunning(c) == calls[c].pc \in {"orig", "await"} /\ wrapped.kind = "trace"
\* what the code called from inside the original of call c sees as active span
SeenInside(c) ==
    {calls[d].active : d \in {d \in Calls : \E i \in 2..Len(stack) : stack[i] = d /\ stack[i - 1] = c}}

\* C33: while the original callable of a traced call runs or is suspended,
\* the active span is the span resolved for the call, and that is what a
\* call made from inside it sees; when the wrapper returns, the active span
\* of its caller is the one that was active before the call.
C33_ActiveSpanScopedToInvocation ==
    [][ /\ \A c \in Calls :
              OriginalRunning(c)' =>
                  /\ calls'[c].span # NoSpan
                  /\ calls'[c].ctx = calls'[c].span
                  /\ \A s \in SeenInside(c)' : s = calls'[c].span
        /\ (stack # <<>> /\ stack' = Pop /\ stack' # <<>>) =>
              /\ calls'[stack'[Len(stack')]].ctx = calls[Top].active
              /\ ActiveChoices' = {calls[Top].active} ]_vars
C33_Witness ==
    /\ Len(stack) = 2
    /\ OriginalRunning(stack[1])
    /\ calls[stack[1]].createdSpan
    /\ calls[stack[1]].active # calls[stack[1]].span
    /\ calls[stack[2]].active = calls[stack[1]].span
    /\ calls[stack[2]].createdSpan

\* ---------------------------------------------------------------- deferred results
\* the promise or thenable the original of call c returned has settled
DeferredSettled(c) ==
    /\ calls[c].out.form \in DeferredForms
    /\ calls[c].settledWith.payload # Nothing
\* the promise the wrapper returned has settled as the original's did
SettledAlike(c) ==
    /\ calls[c].pc = "done"
    /\ calls[c].res.form = "promise"
    /\ calls[c].res.state = IF calls[c].settledWith.ok THEN "fulfilled" ELSE "rejected"
    /\ calls[c].res.payload = calls[c].settledWith.payload
OwnedSpanEnded(c) ==
    calls[c].createdSpan => spans[calls[c].span].ended = 1
\* the original's deferred result is still pending
DeferredPending(c) == calls[c].pc \in {"await", "awaitU"}

\* C34: once the deferred result of the original has settled, the promise
\* the wrapper returned eventually settles with the same value or error and
\* the span the call owns is eventually ended; as long as the deferred
\* result is pending, the wrapper's promise is pending and the owned span
\* is not ended.
C34_WrapperSettlesIffOriginalSettles ==
    /\ \A c \in Calls :
          DeferredSettled(c) ~> (SettledAlike(c) /\ OwnedSpanEnded(c))
    /\ [](\A c \in Calls :
            DeferredPending(c) =>
                /\ calls[c].res.state = "pending"
                /\ calls[c].createdSpan => spans[calls[c].span].ended = 0)

\* ---------------------------------------------------------------- a throwing predicate
\* C35: when the traceOnlyIf predicate throws, the call fails with that
\* error, no span is started, reused or modified, and the original callable
\* is not invoked.
C35_ThrowingGateTouchesNothing ==
    [][\A c \in Calls :
          (calls'[c].gateThrows /\ ~calls[c].gateThrows) =>
              /\ calls'[c].pc = "done"
              /\ calls'[c].res = ResThrow(GateErr)
              /\ calls'[c].origArgs = <<>>
              /\ calls'[c].span = NoSpan /\ ~calls'[c].createdSpan
              /\ spans' = spans
              /\ stack' = stack]_vars
C35_Witness ==
    \E c \in Calls :
        /\ calls[c].gateThrows
        /\ calls[c].active # NoSpan
        /\ wrapped.startMode = "createChild"
        /\ wrapped.coerce
        /\ stack # <<>>

\* ---------------------------------------------------------------- Metrics.clear
\* C37: Metrics.clear() leaves no materialized counter, gauge, histogram or
\* summary instance and keeps every stored registration; the next write of a
\* registered name of any kind materializes a fresh instance, which
\* prom-client's register holds.
C37_ClearDropsInstancesKeepsRegistrations ==
    [][RegistryOp =>
        /\ Last'.op = "clear" =>
            /\ \A k \in MetricKinds, n \in MetricNames : ~registry'.instances[k][n].present
            /\ registry'.configs = registry.configs
        /\ /\ Last.op = "clear" /\ Last'.op \in Programmatic
           /\ registry.configs[Last'.kind][Last'.name].present
           => /\ registry'.instances[Last'.kind][Last'.name].present
              /\ registry'.instances[Last'.kind][Last'.name].id = registry.nextId
              /\ Last'.inst = registry.nextId
              /\ Last'.name \in registry'.register
    ]_vars

\* ---------------------------------------------------------------- overlapping invocations
\* call c runs a settlement callback of its promise chain in this step
Reacts(c) == calls[c].pc = "chain" /\ calls[c].reactions # <<>> /\ calls'[c] # calls[c]
\* the status and message that the outcome of call c asks for
OwnStatus(c) ==
    IF calls[c].settledWith.ok THEN <<StatusOk, Undefined>>
    ELSE <<StatusError, Message(calls[c].settledWith.payload)>>
NewWrites(c) == SubSeq(calls'[c].writes, Len(calls[c].writes) + 1, Len(calls'[c].writes))

\* C38: invocations of one wrapped callable that overlap share no settlement
\* state. Whenever a settlement callback of an invocation runs, in any
\* interleaving with those of another, it changes nothing of the other
\* invocation; a status it sets is that of its own outcome; a measurement it
\* makes carries the error label of its own outcome and stops a timer only if
\* this invocation started one; and a span it ends is the one it started.
C38_OverlappingCallsShareNothing ==
    [][\A c \in Calls : Reacts(c) =>
          /\ \A d \in Calls \ {c} : calls'[d] = calls[d]
          /\ \A s \in DOMAIN spans :
                /\ s # calls[c].span => spans'[s] = spans[s]
                /\ spans'[s].statusSets # spans[s].statusSets =>
                        <<spans'[s].status, spans'[s].msg>> = OwnStatus(c)
                /\ spans'[s].ended # spans[s].ended =>
                        /\ calls[c].createdSpan /\ spans[s].by = c
                        /\ spans'[s].ended = 1
          /\ \A i \in DOMAIN NewWrites(c) :
                /\ wrapped.kind \in {"counter", "histogram"} =>
                        NewWrites(c)[i].error = OutcomeLabel(c)
                /\ NewWrites(c)[i].op = "observeSeconds" => calls[c].timer
      ]_vars
\* two invocations are in the middle of their settlements at once, one
\* rejected and one fulfilled
C38_Witness ==
    \E c, d \in Calls :
        /\ c # d
        /\ calls[c].pc = "chain" /\ calls[d].pc = "chain"
        /\ calls[c].reactions # Reactions /\ calls[c].reactions # <<>>
        /\ calls[d].reactions # <<>>
        /\ ~calls[c].settledWith.ok /\ calls[d].settledWith.ok
        /\ wrapped.kind \in {"counter", "histogram"} /\ calls[c].labelErr # "none"
\* the same for two traced invocations, each with the status of its own outcome
C38_WitnessSpans ==
    \E c, d \in Calls :
        /\ c # d /\ wrapped.made /\ wrapped.kind = "trace"
        /\ calls[c].pc = "chain" /\ calls[d].pc = "chain"
        /\ calls[c].reactions = <<"finally">> /\ calls[d].reactions = <<"finally">>
        /\ calls[c].createdSpan /\ calls[d].createdSpan
        /\ spans[calls[c].span].status = StatusError
        /\ spans[calls[d].span].status = StatusOk

\* ---------------------------------------------------------------- the status of a reused span
\* traced call c works on a span it did not create
Reuses(c) ==
    /\ wrapped.made /\ wrapped.kind = "trace"
    /\ calls[c].span # NoSpan /\ ~calls[c].createdSpan
\* in this step the wrapper of c handles an immediate result or a throw of
\* the original, or the settlement of what the original returned
HandlesImmediate(c) == calls[c].pc = "orig" /\ calls'[c].pc \notin {"orig", "await"}
HandlesSettlement(c) ==
    Reacts(c) /\ Head(calls[c].reactions) = (IF calls[c].chain.ok THEN "then" ELSE "catch")
\* the span s has received the status of a success / of the failure e
StatusWritten(s, ok, e) ==
    /\ spans'[s].statusSets = spans[s].statusSets + 1
    /\ spans'[s].status = (IF ok THEN StatusOk ELSE StatusError)
    /\ spans'[s].msg = (IF ok THEN Undefined ELSE Message(e))
    /\ spans'[s].exc = (IF ok THEN spans[s].exc ELSE Append(spans[s].exc, e))
    /\ spans'[s].ended = spans[s].ended

====
